---- MODULE Spec2Model ----
(***************************************************************************)
(* Model of the A2A agent registry store (registry/services/               *)
(* agent_service.py), the agent register route with its registration      *)
(* security scan (registry/api/agent_routes.py) and the scanner services   *)
(* (registry/services/agent_scanner.py, security_scanner.py).              *)
(*                                                                         *)
(* Paths and file names are sequences of one-character strings, so that    *)
(* _path_to_filename is computed the way the code computes it.             *)
(***************************************************************************)
EXTENDS Integers, Sequences, FiniteSets, TLC

VARIABLES
    registered_agents,  \* AgentService.registered_agents : path -> card
    agent_state,        \* AgentService.agent_state : {"enabled": [...], "disabled": [...]}
    agent_files,        \* settings.agents_dir : file name -> document on disk
    state_file,         \* settings.agent_state_file_path (agent_state.json) on disk
    last_op,            \* the service call that ran last, with its outcome
    requests,           \* the register requests in progress : request id -> position and response
    faiss_is_enabled,   \* path -> the is_enabled flag last handed to faiss_service.add_or_update_entity
    scan_config,        \* agent_scanner_service.get_scan_config()
    scan_files,         \* the "latest" scan output files : <<kind, file name>> -> payload
    scan_archive,       \* the dated scan output files written so far : <<kind, name, payload>>
    last_scan,          \* the scan_agent / scan_server call that ran last, with its outcome
    finished_scans,     \* <<kind, entity>> -> the scanner run of the entity's scan that finished last
    rating_details,     \* path -> the rating_details list of the agent's card
    last_rating,        \* the update_rating call that ran last, with its outcome
    metadata_store,     \* FaissService.metadata_store : path -> metadata record
    next_id_counter,    \* FaissService.next_id_counter
    faiss_index,        \* FaissService.faiss_index : the vectors, each with its id
    faiss_files,        \* what save_data wrote last (index file and metadata file)
    index_tasks,        \* the upserts suspended in embedding_model.encode : task id -> upsert
    last_index_op,      \* the index call that returned last
    removed_paths,      \* the paths removed from the index and not upserted since
    search_call,        \* a call of a search function: its arguments and what it returned
    route_call,         \* a call of a function of the routes: its arguments and its result
    num_stars,          \* path -> the num_stars of the agent's card (a fraction)
    registered_by,      \* path -> the registered_by of the agent's card
    registered_at,      \* path -> the registered_at of the agent's card
    now,                \* the clock that datetime.now reads
    last_update         \* the PUT /agents/{path} request that was handled last

store_vars == <<registered_agents, agent_state, agent_files, state_file>>
route_vars == <<requests, faiss_is_enabled, scan_config>>
scan_vars == <<scan_files, scan_archive, last_scan, finished_scans>>
rating_vars == <<rating_details, last_rating, num_stars>>
owner_vars == <<registered_by, registered_at, now, last_update>>
index_vars == <<metadata_store, next_id_counter, faiss_index, faiss_files, index_tasks,
               last_index_op, removed_paths, search_call, route_call>>

(***************************************************************************)
(* Bounds and input sets.                                                  *)
(***************************************************************************)
MaxListLen == 2

PathAB == <<"/", "a", "/", "b">>
PathA_B == <<"/", "a", "_", "b">>
PathC == <<"/", "c">>
Paths == {PathAB, PathA_B, PathC}

Descs == {"d1", "d2"}

SECURITY_PENDING == "security-pending"

(***************************************************************************)
(* String helpers (Python str methods used by the code).                   *)
(***************************************************************************)
EndsWith(s, suf) ==
    /\ Len(s) >= Len(suf)
    /\ SubSeq(s, Len(s) - Len(suf) + 1, Len(s)) = suf

StartsWith(s, pre) ==
    /\ Len(s) >= Len(pre)
    /\ SubSeq(s, 1, Len(pre)) = pre

RECURSIVE LStrip(_, _)
LStrip(s, c) ==
    IF s # <<>> /\ Head(s) = c THEN LStrip(Tail(s), c) ELSE s

RECURSIVE RStrip(_, _)
RStrip(s, c) ==
    IF s # <<>> /\ s[Len(s)] = c THEN RStrip(SubSeq(s, 1, Len(s) - 1), c) ELSE s

RECURSIVE Replace(_, _, _)
Replace(s, pat, rep) ==
    IF Len(s) < Len(pat) \/ pat = <<>> THEN s
    ELSE IF SubSeq(s, 1, Len(pat)) = pat
         THEN rep \o Replace(SubSeq(s, Len(pat) + 1, Len(s)), pat, rep)
         ELSE <<Head(s)>> \o Replace(Tail(s), pat, rep)

\* x in list
In(x, list) == \E i \in 1..Len(list) : list[i] = x

\* list.remove(x): removes the first occurrence (x is known to be in list)
RECURSIVE ListRemove(_, _)
ListRemove(list, x) ==
    IF list = <<>> THEN <<>>
    ELSE IF Head(list) = x THEN Tail(list)
         ELSE <<Head(list)>> \o ListRemove(Tail(list), x)

Count(x, list) == Cardinality({i \in 1..Len(list) : list[i] = x})

\* every order in which the members of a finite set can be iterated
Orders(S) ==
    {s \in [1..Cardinality(S) -> S] : \A i, j \in 1..Cardinality(S) : s[i] = s[j] => i = j}

AGENT_SUFFIX == <<"_", "a", "g", "e", "n", "t", ".", "j", "s", "o", "n">>
JSON_SUFFIX == <<".", "j", "s", "o", "n">>

(***************************************************************************)
(* _path_to_filename                                                       *)
(***************************************************************************)
path_to_filename(path) ==
    LET normalized == Replace(LStrip(path, "/"), <<"/">>, <<"_">>)
    IN  IF ~EndsWith(normalized, AGENT_SUFFIX)
        THEN IF EndsWith(normalized, JSON_SUFFIX)
             THEN Replace(normalized, JSON_SUFFIX, AGENT_SUFFIX)
             ELSE normalized \o AGENT_SUFFIX
        ELSE normalized

(***************************************************************************)
(* Documents.                                                              *)
(***************************************************************************)
\* an AgentCard: the fields the modelled operations read or write
AgentCard(path, desc, tags) == [path |-> path, desc |-> desc, tags |-> tags]

NoCard == AgentCard(<<>>, "", <<>>)

\* content of an entity file: a complete JSON document, or a torn write
Document(card) == [valid |-> TRUE, card |-> card]
TornDocument == [valid |-> FALSE, card |-> NoCard]

\* content of agent_state.json
StateDocument(state) ==
    [exists |-> TRUE, valid |-> TRUE, enabled |-> state.enabled, disabled |-> state.disabled]
NoStateFile ==
    [exists |-> FALSE, valid |-> FALSE, enabled |-> <<>>, disabled |-> <<>>]
TornStateFile ==
    [exists |-> TRUE, valid |-> FALSE, enabled |-> <<>>, disabled |-> <<>>]

EmptyState == [enabled |-> <<>>, disabled |-> <<>>]

Op(op, path, enabled, result) ==
    [op |-> op, path |-> path, enabled |-> enabled, result |-> result]

(***************************************************************************)
(* The store: what AgentService holds in memory and what it keeps on disk. *)
(* The operations below are functions of a store value, so that they can   *)
(* be applied to the current state by the actions and to a hypothetical    *)
(* state by the properties (reload, repeated toggle).                      *)
(***************************************************************************)
Store(reg, st, files, sf) ==
    [registered_agents |-> reg, agent_state |-> st, agent_files |-> files, state_file |-> sf]

Current == Store(registered_agents, agent_state, agent_files, state_file)

\* AgentService.__init__ over an empty agents directory
EmptyDict == [x \in {} |-> NoCard]

EmptyStore == Store(EmptyDict, EmptyState, EmptyDict, NoStateFile)

\* d[k] = v on a Python dict
DictSet(d, k, v) == [x \in (DOMAIN d) \cup {k} |-> IF x = k THEN v ELSE d[x]]

\* del d[k] / unlink of a file
DictDel(d, k) == [x \in (DOMAIN d) \ {k} |-> d[x]]

\* How a write to disk can end.  "ok": the file holds the new content.
\* "open": open(file, "w") raised, the file is untouched.  "write": json.dump
\* raised after open(file, "w") truncated the file, the file is torn.
WriteFaults == {"ok", "open", "write"}

(***************************************************************************)
(* _save_agent_to_disk: open(file_path, "w"); json.dump(agent_dict, f).    *)
(* Returns the files after the call and the boolean the code returns.      *)
(***************************************************************************)
save_agent_to_disk(files, agent_card, fault) ==
    LET filename == path_to_filename(agent_card.path)
    IN  CASE fault = "ok" ->
                [files |-> DictSet(files, filename, Document(agent_card)), ok |-> TRUE]
          [] fault = "open" ->
                [files |-> files, ok |-> FALSE]
          [] OTHER ->
                [files |-> DictSet(files, filename, TornDocument), ok |-> FALSE]

(***************************************************************************)
(* _persist_state_to_disk: open(state_file, "w"); json.dump(state_data, f) *)
(* inside try/except Exception: a failure is logged and swallowed.         *)
(***************************************************************************)
persist_state_to_disk(sf, state_data, fault) ==
    CASE fault = "ok" -> StateDocument(state_data)
      [] fault = "open" -> sf
      [] OTHER -> TornStateFile

(***************************************************************************)
(* _load_state_file                                                        *)
(***************************************************************************)
load_state_file(sf) ==
    IF sf.exists /\ sf.valid
    THEN [enabled |-> sf.enabled, disabled |-> sf.disabled]
    ELSE EmptyState

(***************************************************************************)
(* _load_agent_from_file: None for a file that does not parse              *)
(***************************************************************************)
load_agent_from_file(files, filename) ==
    IF files[filename].valid THEN files[filename].card ELSE NoCard

(***************************************************************************)
(* AgentService._load_agent_state: paths registered but in neither list    *)
(* are appended to disabled, in the iteration order of registered_agents   *)
(* (`order`, the order in which glob returned the files).                  *)
(***************************************************************************)
MissingFromState(reg, state_data) ==
    {p \in DOMAIN reg : ~In(p, state_data.enabled) /\ ~In(p, state_data.disabled)}

\* a load that takes the lists as the state file has them
load_agent_state_as_persisted(reg, sf, order) ==
    LET state_data == load_state_file(sf)
    IN  [enabled |-> state_data.enabled, disabled |-> state_data.disabled]

load_agent_state(reg, sf, order) ==
    LET state_data == load_state_file(sf)
    IN  [enabled |-> state_data.enabled, disabled |-> state_data.disabled \o order]

(***************************************************************************)
(* AgentService.load_agents_and_state                                      *)
(***************************************************************************)
LoadedPaths(files) ==
    {load_agent_from_file(files, f).path : f \in {g \in DOMAIN files : files[g].valid}}

\* two files never hold the same path here (a card is only ever written to
\* path_to_filename(card.path)), so "last one wins" has one candidate
load_registered_agents(files) ==
    [p \in LoadedPaths(files) |->
        load_agent_from_file(files,
            CHOOSE f \in DOMAIN files : files[f].valid /\ files[f].card.path = p)]

load_agents_and_state(s, order) ==
    LET temp_agents == load_registered_agents(s.agent_files)
    IN  Store(temp_agents,
              load_agent_state(temp_agents, s.state_file, order),
              s.agent_files,
              s.state_file)

LoadOrders(s) ==
    Orders(MissingFromState(load_registered_agents(s.agent_files),
                            load_state_file(s.state_file)))

\* the value an operation yields: the store after it and what the caller gets
Outcome(s, result) == [store |-> s, result |-> result]

\* register_agent without its "path already exists" check
register_agent_overwriting(s, agent_card, save_fault, persist_fault) ==
    LET path == agent_card.path
        saved == save_agent_to_disk(s.agent_files, agent_card, save_fault)
        new_state == [enabled |-> s.agent_state.enabled,
                      disabled |-> Append(s.agent_state.disabled, path)]
    IN  IF ~saved.ok
        THEN Outcome(Store(s.registered_agents, s.agent_state, saved.files, s.state_file),
                     "save_failed")
        ELSE Outcome(Store(DictSet(s.registered_agents, path, agent_card),
                           new_state,
                           saved.files,
                           persist_state_to_disk(s.state_file, new_state, persist_fault)),
                     "ok")

(***************************************************************************)
(* AgentService.register_agent.  "exists": ValueError(already exists);     *)
(* "save_failed": ValueError(Failed to save); "ok": the card is returned.  *)
(***************************************************************************)
register_agent(s, agent_card, save_fault, persist_fault) ==
    LET path == agent_card.path
        saved == save_agent_to_disk(s.agent_files, agent_card, save_fault)
        new_state == [enabled |-> s.agent_state.enabled,
                      disabled |-> Append(s.agent_state.disabled, path)]
    IN  IF path \in DOMAIN s.registered_agents
        THEN Outcome(s, "exists")
        ELSE IF ~saved.ok
        THEN Outcome(Store(s.registered_agents, s.agent_state, saved.files, s.state_file),
                     "save_failed")
        ELSE Outcome(Store(DictSet(s.registered_agents, path, agent_card),
                           new_state,
                           saved.files,
                           persist_state_to_disk(s.state_file, new_state, persist_fault)),
                     "ok")

(***************************************************************************)
(* AgentService.enable_agent.  "not_found": ValueError; "ok": returns.     *)
(***************************************************************************)
enable_agent(s, path, persist_fault) ==
    LET without == IF In(path, s.agent_state.disabled)
                   THEN ListRemove(s.agent_state.disabled, path)
                   ELSE s.agent_state.disabled
        new_state == [enabled |-> Append(s.agent_state.enabled, path), disabled |-> without]
    IN  IF path \notin DOMAIN s.registered_agents
        THEN Outcome(s, "not_found")
        ELSE IF In(path, s.agent_state.enabled)
        THEN Outcome(s, "ok")
        ELSE Outcome(Store(s.registered_agents,
                           new_state,
                           s.agent_files,
                           persist_state_to_disk(s.state_file, new_state, persist_fault)),
                     "ok")

(***************************************************************************)
(* AgentService.disable_agent                                              *)
(***************************************************************************)
disable_agent(s, path, persist_fault) ==
    LET without == IF In(path, s.agent_state.enabled)
                   THEN ListRemove(s.agent_state.enabled, path)
                   ELSE s.agent_state.enabled
        new_state == [enabled |-> without, disabled |-> Append(s.agent_state.disabled, path)]
    IN  IF path \notin DOMAIN s.registered_agents
        THEN Outcome(s, "not_found")
        ELSE IF In(path, s.agent_state.disabled)
        THEN Outcome(s, "ok")
        ELSE Outcome(Store(s.registered_agents,
                           new_state,
                           s.agent_files,
                           persist_state_to_disk(s.state_file, new_state, persist_fault)),
                     "ok")

(***************************************************************************)
(* AgentService.toggle_agent: True, or False when the service raised.      *)
(***************************************************************************)
toggle_agent(s, path, enabled, persist_fault) ==
    LET done == IF enabled
                THEN enable_agent(s, path, persist_fault)
                ELSE disable_agent(s, path, persist_fault)
    IN  Outcome(done.store, IF done.result = "ok" THEN "true" ELSE "false")

(***************************************************************************)
(* AgentService.delete_agent.  "not_found": ValueError(not found);         *)
(* "failed": ValueError(Failed to delete), raised when unlink raises;      *)
(* "ok": returns True.                                                     *)
(***************************************************************************)
delete_agent(s, path, unlink_ok, persist_fault) ==
    LET filename == path_to_filename(path)
        files == IF filename \in DOMAIN s.agent_files
                 THEN DictDel(s.agent_files, filename)
                 ELSE s.agent_files
        enabled == IF In(path, s.agent_state.enabled)
                   THEN ListRemove(s.agent_state.enabled, path)
                   ELSE s.agent_state.enabled
        disabled == IF In(path, s.agent_state.disabled)
                    THEN ListRemove(s.agent_state.disabled, path)
                    ELSE s.agent_state.disabled
        new_state == [enabled |-> enabled, disabled |-> disabled]
    IN  IF path \notin DOMAIN s.registered_agents
        THEN Outcome(s, "not_found")
        ELSE IF filename \in DOMAIN s.agent_files /\ ~unlink_ok
        THEN Outcome(s, "failed")
        ELSE Outcome(Store(DictDel(s.registered_agents, path),
                           new_state,
                           files,
                           persist_state_to_disk(s.state_file, new_state, persist_fault)),
                     "ok")

(***************************************************************************)
(* AgentService.update_agent, with updates = {"description": desc}         *)
(***************************************************************************)
update_agent(s, path, desc, save_fault) ==
    LET existing_agent == s.registered_agents[path]
        updated_agent == AgentCard(path, desc, existing_agent.tags)
        saved == save_agent_to_disk(s.agent_files, updated_agent, save_fault)
    IN  IF path \notin DOMAIN s.registered_agents
        THEN Outcome(s, "not_found")
        ELSE IF ~saved.ok
        THEN Outcome(Store(s.registered_agents, s.agent_state, saved.files, s.state_file),
                     "save_failed")
        ELSE Outcome(Store(DictSet(s.registered_agents, path, updated_agent),
                           s.agent_state,
                           saved.files,
                           s.state_file),
                     "ok")

(***************************************************************************)
(* AgentService.is_agent_enabled                                           *)
(***************************************************************************)
is_agent_enabled(s, path) ==
    LET alternate_path == IF EndsWith(path, <<"/">>)
                          THEN RStrip(path, "/")
                          ELSE Append(path, "/")
    IN  In(path, s.agent_state.enabled) \/ In(alternate_path, s.agent_state.enabled)

(***************************************************************************)
(* AgentService.get_agent_info: TRUE when a card is found                  *)
(***************************************************************************)
get_agent_info(s, path) ==
    LET alternate_path == IF EndsWith(path, <<"/">>)
                          THEN RStrip(path, "/")
                          ELSE Append(path, "/")
    IN  path \in DOMAIN s.registered_agents \/ alternate_path \in DOMAIN s.registered_agents

(***************************************************************************)
(* The scanners.  A run of the scanner subprocess is an input: how it      *)
(* exited, what its stdout was, and the severities of the findings in it.  *)
(***************************************************************************)
ScannerRun(exit, stdout, severities) ==
    [exit |-> exit, stdout |-> stdout, severities |-> severities]

ScannerRuns ==
    {ScannerRun("ok", "json", <<>>),
     ScannerRun("ok", "json", <<"LOW">>),
     ScannerRun("ok", "json", <<"HIGH">>),
     ScannerRun("ok", "json", <<"medium", "critical">>),
     ScannerRun("ok", "no_json", <<>>),
     ScannerRun("ok", "bad_json", <<>>),
     ScannerRun("nonzero", "json", <<>>),
     ScannerRun("timeout", "json", <<>>)}

\* the runs in which the subprocess fails, times out or prints no parsable JSON
FailedRun(run) == run.exit # "ok" \/ run.stdout # "json"

\* str.lower on the severity names the scanners print
Lower(severity) ==
    CASE severity = "CRITICAL" -> "critical"
      [] severity = "HIGH" -> "high"
      [] severity = "MEDIUM" -> "medium"
      [] severity = "LOW" -> "low"
      [] OTHER -> severity

Returned(value) == [raised |-> FALSE, error |-> "", value |-> value]
Raised(error) == [raised |-> TRUE, error |-> error, value |-> <<>>]

RawOutput(severities) == [error |-> "", scan_failed |-> FALSE, findings |-> severities]
ErrorOutput(error) == [error |-> error, scan_failed |-> TRUE, findings |-> <<>>]

\* AgentScannerService._run_a2a_scanner
run_a2a_scanner(run) ==
    IF run.exit = "timeout" THEN Raised("RuntimeError: Agent security scan timed out")
    ELSE IF run.exit = "nonzero" THEN Raised("RuntimeError: Agent security scanner failed")
    ELSE IF run.stdout = "no_json" THEN Raised("ValueError: No JSON found in A2A scanner output")
    ELSE IF run.stdout = "bad_json" THEN Raised("JSONDecodeError")
    ELSE Returned(RawOutput(run.severities))

\* SecurityScannerService._run_mcp_scanner
run_mcp_scanner(run) ==
    IF run.exit = "timeout" THEN Raised("RuntimeError: Security scan timed out")
    ELSE IF run.exit = "nonzero" THEN Raised("RuntimeError: Security scanner failed")
    ELSE IF run.stdout = "no_json" THEN Raised("ValueError: No JSON array found in scanner output")
    ELSE IF run.stdout = "bad_json" THEN Raised("RuntimeError: Failed to parse security scanner output")
    ELSE Returned(RawOutput(run.severities))

\* _analyze_scan_results with a verdict that looks at the critical count only
analyze_scan_results_critical_only(raw_output) ==
    LET n(sev) == Cardinality({i \in 1..Len(raw_output.findings) :
                                  Lower(raw_output.findings[i]) = sev})
    IN  [is_safe |-> n("critical") = 0,
         critical_issues |-> n("critical"),
         high_severity |-> n("high"),
         medium_severity |-> n("medium"),
         low_severity |-> n("low")]

\* _analyze_scan_results (the same in both services)
analyze_scan_results(raw_output) ==
    LET n(sev) == Cardinality({i \in 1..Len(raw_output.findings) :
                                  Lower(raw_output.findings[i]) = sev})
    IN  [is_safe |-> n("critical") = 0 /\ n("high") = 0,
         critical_issues |-> n("critical"),
         high_severity |-> n("high"),
         medium_severity |-> n("medium"),
         low_severity |-> n("low")]

ScanArchive(files, archive) == [scan_files |-> files, scan_archive |-> archive]

\* AgentScannerService._save_scan_output: the dated copy, then the latest file
save_agent_scan_output(a, agent_path, raw_output) ==
    LET safe_path == RStrip(LStrip(Replace(agent_path, <<"/">>, <<"_">>), "_"), "_")
    IN  ScanArchive(DictSet(a.scan_files, <<"agent", safe_path>>, raw_output),
                    a.scan_archive \cup {<<"agent", safe_path, raw_output>>})

HTTP == <<"http://">>
HTTPS == <<"https://">>
MCP_ENDPOINT == <<"/", "mcp">>
LOCALHOST_ == <<"localhost", "_">>

\* SecurityScannerService._save_scan_output
save_server_scan_output(a, server_url, raw_output) ==
    LET safe_url == Replace(Replace(Replace(server_url, HTTPS, <<>>), HTTP, <<>>),
                            <<"/">>, <<"_">>)
        server_name == Replace(safe_url, LOCALHOST_, <<>>)
    IN  ScanArchive(DictSet(a.scan_files, <<"server", server_name>>, raw_output),
                    a.scan_archive \cup {<<"server", safe_url, raw_output>>})

\* get_scan_result answers None when the latest file is missing
NoScanResult == [error |-> "no scan", scan_failed |-> FALSE, findings |-> <<>>]

\* AgentScannerService.get_scan_result
get_agent_scan_result(files, agent_path) ==
    LET safe_path == RStrip(LStrip(Replace(agent_path, <<"/">>, <<"_">>), "_"), "_")
    IN  IF <<"agent", safe_path>> \in DOMAIN files
        THEN files[<<"agent", safe_path>>]
        ELSE NoScanResult

\* SecurityScannerService._server_url_to_filename (without the ".json")
server_url_to_filename(server_url) ==
    LET stripped == RStrip(server_url, "/")
        normalized_url == IF EndsWith(stripped, MCP_ENDPOINT) THEN stripped
                          ELSE stripped \o MCP_ENDPOINT
        safe_url == Replace(Replace(Replace(normalized_url, HTTPS, <<>>), HTTP, <<>>),
                            <<"/">>, <<"_">>)
    IN  Replace(safe_url, LOCALHOST_, <<>>)

\* SecurityScannerService.get_scan_result, from the server's proxy_pass_url on
get_server_scan_result(files, server_url) ==
    LET filename == server_url_to_filename(server_url)
    IN  IF <<"server", filename>> \in DOMAIN files
        THEN files[<<"server", filename>>]
        ELSE NoScanResult

\* the url entry of the agent card dict handed to scan_agent: absent, a str,
\* or the HttpUrl object that AgentCard.model_dump() leaves in the dict
UrlKinds == {"none", "str", "HttpUrl"}

\* AgentSecurityScanResult.agent_url is Optional[str]: the model validates it
ValidAgentUrl(url) == url \in {"none", "str"}

ScanResult(analysis, raw_output, scan_failed, error_message) ==
    [is_safe |-> analysis.is_safe,
     critical_issues |-> analysis.critical_issues,
     high_severity |-> analysis.high_severity,
     scan_failed |-> scan_failed,
     error_message |-> error_message,
     raw_output |-> raw_output]

FailedAnalysis ==
    [is_safe |-> FALSE, critical_issues |-> 0, high_severity |-> 0,
     medium_severity |-> 0, low_severity |-> 0]

ScanOutcome(raised, result, a) == [raised |-> raised, result |-> result, archive |-> a]

NoResult == ScanResult(FailedAnalysis, ErrorOutput(""), FALSE, "")

(***************************************************************************)
(* AgentScannerService.scan_agent.  The try branch converts the url with   *)
(* str() before it builds the result; the except branch hands              *)
(* agent_card.get("url") to the result model as it is.                     *)
(***************************************************************************)
scan_agent(a, agent_path, url, run) ==
    LET ran == run_a2a_scanner(run)
    IN  IF ~ran.raised
        THEN ScanOutcome(FALSE,
                         ScanResult(analyze_scan_results(ran.value), ran.value, FALSE, ""),
                         save_agent_scan_output(a, agent_path, ran.value))
        ELSE LET raw_output == ErrorOutput(ran.error)
                 saved == save_agent_scan_output(a, agent_path, raw_output)
             IN  IF ValidAgentUrl(url)
                 THEN ScanOutcome(FALSE,
                                  ScanResult(FailedAnalysis, raw_output, TRUE, ran.error),
                                  saved)
                 ELSE ScanOutcome(TRUE, NoResult, saved)

(***************************************************************************)
(* SecurityScannerService.scan_server                                      *)
(***************************************************************************)
scan_server(a, server_url, run) ==
    LET url == IF EndsWith(server_url, MCP_ENDPOINT) THEN server_url
               ELSE server_url \o MCP_ENDPOINT
        ran == run_mcp_scanner(run)
    IN  IF ~ran.raised
        THEN ScanOutcome(FALSE,
                         ScanResult(analyze_scan_results(ran.value), ran.value, FALSE, ""),
                         save_server_scan_output(a, url, ran.value))
        ELSE LET raw_output == ErrorOutput(ran.error)
             IN  ScanOutcome(FALSE,
                             ScanResult(FailedAnalysis, raw_output, TRUE, ran.error),
                             save_server_scan_output(a, url, raw_output))

(***************************************************************************)
(* The register route and its registration scan.                           *)
(***************************************************************************)
MaxRequests == 2

RequestIds == 1..MaxRequests

\* a request of the register route: where it is suspended, the card it
\* carries, the is_enabled it read after registering, and its response
Request(pc, path, tags, is_enabled, status, verdict) ==
    [pc |-> pc, path |-> path, tags |-> tags, is_enabled |-> is_enabled,
     status |-> status, verdict |-> verdict]

IdleRequest == Request("idle", <<>>, <<>>, FALSE, 0, "none")

ScanConfig(enabled, block_unsafe_agents, add_security_pending_tag) ==
    [enabled |-> enabled, scan_on_registration |-> TRUE,
     block_unsafe_agents |-> block_unsafe_agents,
     add_security_pending_tag |-> add_security_pending_tag]

\* the settings' defaults
DefaultScanConfig == ScanConfig(TRUE, TRUE, TRUE)

ScanConfigs ==
    {ScanConfig(e, b, t) : e \in BOOLEAN, b \in BOOLEAN, t \in BOOLEAN}

SlashC == <<"c">>
PathCSlash == <<"/", "c", "/">>

\* request.path as the clients send it
RawPaths == {SlashC, PathCSlash, PathAB}

\* _normalize_path for a path that is given
normalize_path(path) ==
    LET rooted == IF StartsWith(path, <<"/">>) THEN path ELSE <<"/">> \o path
    IN  IF EndsWith(rooted, <<"/">>) /\ Len(rooted) > 1 THEN RStrip(rooted, "/") ELSE rooted

NoScan ==
    [kind |-> "none", target |-> <<>>, url |-> "none",
     run |-> ScannerRun("ok", "json", <<>>), raised |-> FALSE, result |-> NoResult]

Handled(s, faiss, is_enabled) == [store |-> s, faiss |-> faiss, is_enabled |-> is_enabled]

\* agent_card.tags = current_tags: the card the route registered is the
\* object the store holds, so the store's card shows the tag (in memory only)
TagInMemory(s, path, tags) ==
    IF path \in DOMAIN s.registered_agents
    THEN Store([s.registered_agents EXCEPT ![path].tags = tags],
               s.agent_state, s.agent_files, s.state_file)
    ELSE s

(***************************************************************************)
(* _perform_agent_security_scan_on_registration, from the return of        *)
(* scan_agent on.  An exception, raised by scan_agent or by the            *)
(* register_agent call that is to store the tag, ends the handling in the  *)
(* outer except branch, which returns True.                                *)
(***************************************************************************)
perform_agent_security_scan(s, faiss, path, tags, scan, config) ==
    LET blocked(st) ==
            IF config.block_unsafe_agents
            THEN Handled(toggle_agent(st, path, FALSE, "ok").store,
                         [faiss EXCEPT ![path] = "disabled"], FALSE)
            ELSE Handled(st, faiss, TRUE)
    IN  IF scan.raised THEN Handled(s, faiss, TRUE)
        ELSE IF scan.result.is_safe THEN Handled(s, faiss, TRUE)
        ELSE IF config.add_security_pending_tag /\ ~In(SECURITY_PENDING, tags)
        THEN LET current_tags == Append(tags, SECURITY_PENDING)
                 tagged == TagInMemory(s, path, current_tags)
             IN  IF get_agent_info(tagged, path)
                 THEN LET out == register_agent(tagged,
                                     AgentCard(path, tagged.registered_agents[path].desc,
                                               current_tags), "ok", "ok")
                      IN  IF out.result = "exists"
                          THEN Handled(tagged, faiss, TRUE)
                          ELSE blocked(out.store)
                 ELSE blocked(tagged)
        ELSE blocked(s)

(***************************************************************************)
(* Access to agents (registry/api/agent_routes.py).  The entry 'all' of    *)
(* accessible_agents is written as a path of its own.                      *)
(***************************************************************************)
ALL == <<"all">>

PUBLIC == "public"
PRIVATE == "private"
GROUP_RESTRICTED == "group-restricted"

\* the fields of an agent card that decide who may read it
AccessCard(path, visibility, by, allowed_groups) ==
    [path |-> path, visibility |-> visibility, registered_by |-> by,
     allowed_groups |-> allowed_groups]

UserContext(username, is_admin, groups, accessible_agents) ==
    [username |-> username, is_admin |-> is_admin, groups |-> groups,
     accessible_agents |-> accessible_agents]

\* an access filter that lets every user who may see the path read a private agent
agent_accessible_private_open(agent, user_context) ==
    user_context.is_admin
    \/ /\ ALL \in user_context.accessible_agents \/ agent.path \in user_context.accessible_agents
       /\ \/ agent.visibility \in {PUBLIC, PRIVATE}
          \/ /\ agent.visibility = GROUP_RESTRICTED
             /\ agent.allowed_groups \cap user_context.groups # {}

\* the body of the loop of _filter_agents_by_access: TRUE when the agent is
\* appended to the accessible ones
agent_accessible(agent, user_context) ==
    IF user_context.is_admin THEN TRUE
    ELSE IF ALL \notin user_context.accessible_agents
            /\ agent.path \notin user_context.accessible_agents THEN FALSE
    ELSE IF agent.visibility = PUBLIC THEN TRUE
    ELSE IF agent.visibility = PRIVATE THEN agent.registered_by = user_context.username
    ELSE IF agent.visibility = GROUP_RESTRICTED
    THEN agent.allowed_groups \cap user_context.groups # {}
    ELSE FALSE

\* _filter_agents_by_access
filter_agents_by_access(agents, user_context) ==
    SelectSeq(agents, LAMBDA agent : agent_accessible(agent, user_context))

\* GET /agents/{path}: the status of the response; cards holds the card of
\* every registered path
get_agent(cards, raw_path, user_context) ==
    LET path == normalize_path(raw_path)
    IN  IF path \notin DOMAIN cards THEN 404
        ELSE IF filter_agents_by_access(<<cards[path]>>, user_context) = <<>> THEN 403
        ELSE 200

RouteCall(op, raw_path, agent, user_context, done, result) ==
    [op |-> op, raw_path |-> raw_path, agent |-> agent, user_context |-> user_context,
     done |-> done, result |-> result]

NoAccessCard == AccessCard(<<>>, "none", "", {})
NoUserContext == UserContext("", FALSE, {}, {})
NoRouteCall == RouteCall("none", <<>>, NoAccessCard, NoUserContext, FALSE, <<>>)

(***************************************************************************)
(* Ratings (registry/services/rating_service.py).  The source keeps 100    *)
(* ratings per resource; the model keeps MAX_RATINGS_PER_RESOURCE, a small *)
(* number, so that the buffer fills up and rotates.                        *)
(***************************************************************************)
MAX_RATINGS_PER_RESOURCE == 3
MIN_RATING_VALUE == 1
MAX_RATING_VALUE == 5

Users == {"u1", "u2", "u3", "u4"}
Ratings == {0, MIN_RATING_VALUE, MAX_RATING_VALUE}

\* a float that is the quotient of two integers
Score(num, den) == [num |-> num, den |-> den]

RatingEntry(user, rating) == [user |-> user, rating |-> rating]

\* validate_rating: TRUE when it does not raise
validate_rating(rating) == rating >= MIN_RATING_VALUE /\ rating <= MAX_RATING_VALUE

\* the positions of username's entries
EntriesOf(details, username) == {i \in 1..Len(details) : details[i].user = username}

RatingUpdate(details, is_new_rating) == [details |-> details, is_new_rating |-> is_new_rating]

\* update_rating_details without the rotation: the list only grows
update_rating_details_unbounded(details, username, rating) ==
    IF EntriesOf(details, username) # {}
    THEN LET first == CHOOSE i \in EntriesOf(details, username) :
                          \A j \in EntriesOf(details, username) : i <= j
         IN  RatingUpdate([details EXCEPT ![first].rating = rating], FALSE)
    ELSE RatingUpdate(Append(details, RatingEntry(username, rating)), TRUE)

\* update_rating_details that drops the oldest entry one rating too early
update_rating_details_early_rotation(details, username, rating) ==
    IF EntriesOf(details, username) # {}
    THEN LET first == CHOOSE i \in EntriesOf(details, username) :
                          \A j \in EntriesOf(details, username) : i <= j
         IN  RatingUpdate([details EXCEPT ![first].rating = rating], FALSE)
    ELSE LET appended == Append(details, RatingEntry(username, rating))
         IN  RatingUpdate(IF Len(appended) >= MAX_RATINGS_PER_RESOURCE THEN Tail(appended)
                          ELSE appended,
                          TRUE)

\* update_rating_details that moves a user who rates again to the end
update_rating_details_rotating(details, username, rating) ==
    LET others == SelectSeq(details, LAMBDA e : e.user # username)
        appended == Append(others, RatingEntry(username, rating))
    IN  RatingUpdate(IF Len(appended) > MAX_RATINGS_PER_RESOURCE THEN Tail(appended)
                     ELSE appended,
                     EntriesOf(details, username) = {})

\* rating_service.update_rating_details: the first entry of the user gets the
\* new value; a new user is appended, and the oldest entry is dropped when
\* the list has grown past MAX_RATINGS_PER_RESOURCE
update_rating_details(details, username, rating) ==
    IF EntriesOf(details, username) # {}
    THEN LET first == CHOOSE i \in EntriesOf(details, username) :
                          \A j \in EntriesOf(details, username) : i <= j
         IN  RatingUpdate([details EXCEPT ![first].rating = rating], FALSE)
    ELSE LET appended == Append(details, RatingEntry(username, rating))
         IN  RatingUpdate(IF Len(appended) > MAX_RATINGS_PER_RESOURCE THEN Tail(appended)
                          ELSE appended,
                          TRUE)

\* an update_rating call: its arguments, how it ended, and the length of the
\* agent's rating_details before it
Rating(path, user, rating, result, is_new_rating, len_before) ==
    [path |-> path, user |-> user, rating |-> rating, result |-> result,
     is_new_rating |-> is_new_rating, len_before |-> len_before]

NoRating == Rating(<<>>, "", 0, "none", FALSE, 0)

RECURSIVE SumRatings(_)
SumRatings(details) ==
    IF details = <<>> THEN 0 ELSE Head(details).rating + SumRatings(Tail(details))

\* calculate_average_rating: sum(all_ratings) / len(all_ratings), as a
\* fraction; update_rating calls it with a list that has an entry
calculate_average_rating(details) == Score(SumRatings(details), Len(details))

\* AgentService.update_rating: the files and the rating_details after the
\* call, the num_stars it stores and returns, and how it ended
update_rating(s, details, path, username, rating, save_fault) ==
    LET updated == update_rating_details(details[path], username, rating)
        saved == save_agent_to_disk(s.agent_files, s.registered_agents[path], save_fault)
    IN  IF path \notin DOMAIN s.registered_agents
        THEN [store |-> s, details |-> details, result |-> "not_found", is_new_rating |-> FALSE,
              num_stars |-> Score(0, 1)]
        ELSE IF ~validate_rating(rating)
        THEN [store |-> s, details |-> details, result |-> "invalid", is_new_rating |-> FALSE,
              num_stars |-> Score(0, 1)]
        ELSE IF ~saved.ok
        THEN [store |-> Store(s.registered_agents, s.agent_state, saved.files, s.state_file),
              details |-> details, result |-> "save_failed", is_new_rating |-> FALSE,
              num_stars |-> Score(0, 1)]
        ELSE [store |-> Store(s.registered_agents, s.agent_state, saved.files, s.state_file),
              details |-> [details EXCEPT ![path] = updated.details],
              result |-> "ok", is_new_rating |-> updated.is_new_rating,
              num_stars |-> calculate_average_rating(updated.details)]

(***************************************************************************)
(* PUT /agents/{path} (registry/api/agent_routes.py, update_agent).  The   *)
(* fields of a card that the route takes from the existing card or leaves  *)
(* to their defaults are kept beside the card: registered_by,              *)
(* registered_at, num_stars and rating_details.                            *)
(***************************************************************************)
NoUser == "nobody"

CardFields(by, at, stars, details) ==
    [registered_by |-> by, registered_at |-> at, num_stars |-> stars,
     rating_details |-> details]

\* the card a registration builds for its user: num_stars and rating_details
\* are not given and take their defaults
registered_agent_card(user_context, time) ==
    CardFields(user_context.username, time, Score(0, 1), <<>>)

\* an update that hands the agent over to the user who sent it
updated_agent_card_of_requester(existing_agent, user_context) ==
    CardFields(user_context.username, existing_agent.registered_at,
               existing_agent.num_stars, <<>>)

\* the card the update route builds from the request: registered_by,
\* registered_at and num_stars are those of the existing card;
\* rating_details is not given and takes its default
updated_agent_card(existing_agent, user_context) ==
    CardFields(existing_agent.registered_by, existing_agent.registered_at,
               existing_agent.num_stars, <<>>)

\* a request of the update route: who sent it for which path, and the status
\* of the response
UpdateCall(path, user_context, status) ==
    [path |-> path, user_context |-> user_context, status |-> status]

NoUpdate == UpdateCall(<<>>, NoUserContext, 0)

\* the route up to its call of agent_service.update_agent: the status it
\* answers with before the call, 0 when it makes the call
update_agent_checks(s, path, existing_agent, user_context, permitted, is_valid) ==
    IF ~get_agent_info(s, path) THEN 404
    ELSE IF ~permitted THEN 403
    ELSE IF ~user_context.is_admin /\ existing_agent.registered_by # user_context.username
    THEN 403
    ELSE IF ~is_valid THEN 422
    ELSE 0

(***************************************************************************)
(* The search index (registry/search/service.py, FaissService).  What is   *)
(* indexed of a server or an agent is the text that is embedded, the other *)
(* fields of the entity, and its own is_enabled field (a server_info dict  *)
(* has none; AgentCard has one, which the store never sets).               *)
(***************************************************************************)
MCP_SERVER == "mcp_server"
A2A_AGENT == "a2a_agent"
EntityTypes == {MCP_SERVER, A2A_AGENT}

Texts == {"t1", "t2"}
Extras == {"x1", "x2"}

EntityInfo(text, extra, is_enabled) == [text |-> text, extra |-> extra, is_enabled |-> is_enabled]

\* the server_info dicts and the agent cards handed to the index
EntityInfos == {EntityInfo("t1", "x1", FALSE), EntityInfo("t1", "x2", FALSE),
                EntityInfo("t2", "x1", FALSE)}

MetadataEntry(id, entity_type, text, snapshot) ==
    [id |-> id, entity_type |-> entity_type, text_for_embedding |-> text,
     snapshot |-> snapshot]

NoEntry == MetadataEntry(-1, "none", "", EntityInfo("", "", FALSE))

Vector(id, text) == [id |-> id, text |-> text]

IndexFiles(saved, index, metadata, next_id) ==
    [saved |-> saved, index |-> index, metadata |-> metadata, next_id |-> next_id]

Index(metadata, counter, vectors, files) ==
    [metadata_store |-> metadata, next_id_counter |-> counter, faiss_index |-> vectors,
     faiss_files |-> files]

\* _initialize_new_index, with nothing saved yet
NewIndex == Index(EmptyDict, 0, {}, IndexFiles(FALSE, {}, EmptyDict, 0))

CurrentIndex == Index(metadata_store, next_id_counter, faiss_index, faiss_files)

\* save_data: faiss.write_index, then json.dump of metadata and next_id
save_data(ix) ==
    Index(ix.metadata_store, ix.next_id_counter, ix.faiss_index,
          IndexFiles(TRUE, ix.faiss_index, ix.metadata_store, ix.next_id_counter))

\* save_data cut short by the death of the process after faiss.write_index
\* and before the metadata file is opened: the index file is the new one,
\* the metadata file (if there is one) is the one of the save before
save_data_crashed(ix) ==
    IndexFiles(ix.faiss_files.saved, ix.faiss_index, ix.faiss_files.metadata,
               ix.faiss_files.next_id)

\* _load_faiss_data: both files are read when the metadata file exists (the
\* index file is written first), else a new index is initialized
load_faiss_data(files) ==
    IF files.saved
    THEN Index(files.metadata, files.next_id, files.index, files)
    ELSE Index(EmptyDict, 0, {}, files)

\* self.metadata_store.get(path)
existing_entry(ix, path) ==
    IF path \in DOMAIN ix.metadata_store THEN ix.metadata_store[path] ELSE NoEntry

\* faiss_index.remove_ids([id])
remove_ids(vectors, id) == {v \in vectors : v.id # id}

\* the snapshot stored with the record: add_or_update_service stores the
\* server_info with is_enabled set to its argument; add_or_update_agent stores
\* agent_card.model_dump() and does not use its is_enabled argument
Snapshot(entity_type, info, is_enabled) ==
    IF entity_type = MCP_SERVER THEN EntityInfo(info.text, info.extra, is_enabled)
    ELSE info

(***************************************************************************)
(* add_or_update_service / add_or_update_agent up to the await of          *)
(* embedding_model.encode: the record is looked up, a new path takes its   *)
(* id from next_id_counter, and the text decides whether to embed.         *)
(***************************************************************************)
begin_upsert(ix, path, info) ==
    LET existing == existing_entry(ix, path)
    IN  IF existing # NoEntry
        THEN [index |-> ix, id |-> existing.id, existing |-> existing,
              needs_new_embedding |-> existing.text_for_embedding # info.text]
        ELSE [index |-> Index(ix.metadata_store, ix.next_id_counter + 1, ix.faiss_index,
                              ix.faiss_files),
              id |-> ix.next_id_counter, existing |-> NoEntry,
              needs_new_embedding |-> TRUE]

(***************************************************************************)
(* The rest of the upsert, run when encode has returned (or at once when   *)
(* nothing is embedded): the old vector is removed and the new one added,  *)
(* then the record is written and saved unless nothing differs.  existing  *)
(* is the record as it was read before the await.                          *)
(***************************************************************************)
end_upsert(ix, entity_type, path, info, is_enabled, id, existing, needs_new_embedding, encoded) ==
    LET vectors == IF ~needs_new_embedding THEN ix.faiss_index
                   ELSE (IF existing # NoEntry THEN remove_ids(ix.faiss_index, id)
                         ELSE ix.faiss_index) \cup {Vector(id, info.text)}
        snapshot == Snapshot(entity_type, info, is_enabled)
    IN  IF needs_new_embedding /\ ~encoded
        THEN ix
        ELSE IF existing = NoEntry \/ needs_new_embedding \/ existing.snapshot # snapshot
        THEN save_data(Index(DictSet(ix.metadata_store, path,
                                     MetadataEntry(id, entity_type, info.text, snapshot)),
                             ix.next_id_counter, vectors, ix.faiss_files))
        ELSE Index(ix.metadata_store, ix.next_id_counter, vectors, ix.faiss_files)

\* the rest of the upsert when faiss_index.add_with_ids raises (a vector of
\* another dimension than the index): the old vector of an existing record
\* has been removed by then, and the except branch returns
add_with_ids_raised(ix, id, existing) ==
    Index(ix.metadata_store, ix.next_id_counter,
          IF existing # NoEntry THEN remove_ids(ix.faiss_index, id) ELSE ix.faiss_index,
          ix.faiss_files)

\* remove_service / remove_agent
remove_from_index(ix, path) ==
    IF path \notin DOMAIN ix.metadata_store THEN ix
    ELSE save_data(Index(DictDel(ix.metadata_store, path), ix.next_id_counter,
                         ix.faiss_index, ix.faiss_files))

\* search_mixed, search_entities: the paths a search can return are those of
\* the metadata records whose id is the id of a vector that the index holds
SearchablePaths(ix) ==
    {path \in DOMAIN ix.metadata_store :
        \E v \in ix.faiss_index : v.id = ix.metadata_store[path].id}

(***************************************************************************)
(* Hybrid search (FaissService.search_mixed and its scoring functions).    *)
(* A query is the sequence of its lowercased words, as re.split(r"\W+")    *)
(* yields them; a text (a name, a description, a tag) is the set of its    *)
(* words, the empty set being the empty string.  Scores are fractions.     *)
(***************************************************************************)
STOPWORDS ==
    {"a", "an", "the", "is", "are", "was", "were", "be", "been", "being",
     "have", "has", "had", "do", "does", "did", "will", "would", "could",
     "should", "may", "might", "can", "to", "of", "in", "on", "at", "by",
     "for", "with", "about", "as", "into", "through", "from", "what", "when",
     "where", "who", "which", "how", "why", "get", "set", "put"}

\* the pairs <<u, w>> of different words of the model with u inside w
Substrings == {<<"alpha", "alphabet">>}

\* token in word
Contains(word, token) == token = word \/ <<token, word>> \in Substrings

\* token in text, for a token made of word characters
TokenIn(token, text) == \E word \in text : Contains(word, token)

\* the tokens of a query: its words longer than 2 that are no stopwords
tokenize(query) == SelectSeq(query, LAMBDA t : Len(t) > 2 /\ t \notin STOPWORDS)

Range(seq) == {seq[i] : i \in 1..Len(seq)}

Min(a, b) == IF a <= b THEN a ELSE b
Max(a, b) == IF a >= b THEN a ELSE b

Tool(name, description) == [name |-> name, description |-> description]

\* a server_info dict, or the agent_info_for_boost of an agent card (its
\* skills are the tool_list)
ServerInfo(server_name, description, tags, tool_list) ==
    [server_name |-> server_name, description |-> description, tags |-> tags,
     tool_list |-> tool_list]

NameMatch(tokens, info) == \E token \in tokens : TokenIn(token, info.server_name)

\* the number of tools whose name holds a token
ToolMatches(tokens, info) ==
    Cardinality({i \in 1..Len(info.tool_list) :
                    \E token \in tokens : TokenIn(token, info.tool_list[i].name)})

\* the number of tags that hold a token
TagMatches(tokens, info) ==
    Cardinality({i \in 1..Len(info.tags) : \E token \in tokens : TokenIn(token, info.tags[i])})

DescMatches(tokens, info) == Cardinality({token \in tokens : TokenIn(token, info.description)})

(***************************************************************************)
(* _calculate_keyword_boost, as a fraction of denominator 100 * |tokens|.  *)
(* The description's contribution, desc_matches / |tokens| * 0.2, is added *)
(* only when it is greater than 0.01; in floating point that is            *)
(* 20 * desc_matches >= |tokens| (at equality the product is just above    *)
(* 0.01).                                                                  *)
(***************************************************************************)
calculate_keyword_boost(query, info) ==
    LET query_tokens == Range(tokenize(query))
        n == Cardinality(query_tokens)
        name_boost == IF NameMatch(query_tokens, info) THEN 50 ELSE 0
        tool_boost == Min(60, ToolMatches(query_tokens, info) * 30)
        tag_boost == Min(40, TagMatches(query_tokens, info) * 20)
        desc_matches == DescMatches(query_tokens, info)
        desc_boost == IF info.description # {} /\ desc_matches > 0 /\ 20 * desc_matches >= n
                      THEN 20 * desc_matches ELSE 0
    IN  IF query_tokens = {} THEN Score(100, 100)
        ELSE Score(Min(200 * n, (100 + name_boost + tool_boost + tag_boost) * n + desc_boost),
                   100 * n)

\* the rank of position i in a stable sort by descending key
Rank(keys, i) ==
    1 + Cardinality({j \in 1..Len(keys) : keys[j] > keys[i] \/ (keys[j] = keys[i] /\ j < i)})

\* list.sort(key=..., reverse=True): keys[i] is the key of seq[i]
SortDescending(seq, keys) ==
    [r \in 1..Len(seq) |-> seq[CHOOSE i \in 1..Len(seq) : Rank(keys, i) = r]]

Take(seq, k) == SubSeq(seq, 1, Min(Len(seq), Max(k, 0)))

ToolMatch(tool_name, raw_score) == [tool_name |-> tool_name, raw_score |-> raw_score]

\* server_name_match of _extract_matching_tools
server_name_match(tokens, server_name) ==
    LET server_name_tokens == {t \in server_name : Len(t) > 2}
    IN  \E token \in Range(tokens) :
            \/ TokenIn(token, server_name)
            \/ \E snt \in server_name_tokens : Contains(token, snt) \/ Contains(snt, token)

\* name_matches and desc_matches of a tool: the tokens, each counted as often
\* as the query has it, that are in the tool's name, in its description or args
name_matches(tokens, tool) ==
    Cardinality({i \in 1..Len(tokens) : TokenIn(tokens[i], tool.name)})

desc_matches(tokens, tool) ==
    Cardinality({i \in 1..Len(tokens) : TokenIn(tokens[i], tool.description)})

weighted_matches(tokens, tool) == name_matches(tokens, tool) * 2 + desc_matches(tokens, tool)

\* tool_raw_score with coverage = weighted_matches / max_possible_score
tool_raw_score_uncapped(tokens, name_matched, tool) ==
    IF tool.name = {} /\ tool.description = {} THEN 0
    ELSE IF weighted_matches(tokens, tool) = 0 /\ name_matched THEN Len(tokens)
    ELSE weighted_matches(tokens, tool)

\* the raw_score of one tool, as a fraction of denominator 2 * |tokens|, and
\* 0 for a tool that is left out: a tool with no name, description and args,
\* or one that no token matches while the server name does not match either
tool_raw_score(tokens, name_matched, tool) ==
    LET max_possible_score == Len(tokens) * 2
    IN  IF tool.name = {} /\ tool.description = {} THEN 0
        ELSE IF weighted_matches(tokens, tool) = 0 /\ name_matched THEN Len(tokens)
        ELSE IF weighted_matches(tokens, tool) = 0 THEN 0
        ELSE Min(max_possible_score, weighted_matches(tokens, tool))

(***************************************************************************)
(* _extract_matching_tools: the tools that match, best first; raw_score is *)
(* a fraction of denominator 2 * |tokens|.                                 *)
(***************************************************************************)
extract_matching_tools(query, info) ==
    LET tokens == tokenize(query)
        name_matched == server_name_match(tokens, info.server_name)
        scores == [i \in 1..Len(info.tool_list) |->
                       tool_raw_score(tokens, name_matched, info.tool_list[i])]
        kept == SelectSeq([i \in 1..Len(info.tool_list) |-> i], LAMBDA i : scores[i] > 0)
        matches == [k \in 1..Len(kept) |->
                       ToolMatch(info.tool_list[kept[k]].name,
                                 Score(scores[kept[k]], 2 * Len(tokens)))]
    IN  IF info.tool_list = <<>> \/ tokens = <<>> THEN <<>>
        ELSE SortDescending(matches, [k \in 1..Len(kept) |-> scores[kept[k]]])

\* _distance_to_relevance, in hundredths
distance_to_relevance(distance) ==
    LET similarity == IF distance < 0 THEN -distance ELSE 100 - distance
    IN  Max(0, Min(100, similarity))

\* the number of results that the source returns at most per bucket is 50, and
\* at most 5 tools per server; the model takes smaller numbers, so that small
\* indexes fill the buckets
MAX_SEARCH_RESULTS == 2
MAX_TOOLS_PER_SERVER == 2

\* max_results = max(1, min(max_results, 50)), without the upper limit
clamp_max_results_unbounded(max_results) == Max(1, max_results)

\* max_results = max(1, min(max_results, 50))
clamp_max_results(max_results) == Max(1, Min(max_results, MAX_SEARCH_RESULTS))

\* a vector of the index as a search finds it: its distance to the query and
\* the metadata record of its id (entity_type "none": no record has the id)
Hit(path, entity_type, info, distance) ==
    [path |-> path, entity_type |-> entity_type, info |-> info, distance |-> distance]

ServerResult(path, relevance_score, matching_tools) ==
    [entity_type |-> MCP_SERVER, path |-> path, relevance_score |-> relevance_score,
     matching_tools |-> matching_tools]

ToolResult(server_path, tool_name, relevance_score) ==
    [entity_type |-> "tool", server_path |-> server_path, tool_name |-> tool_name,
     relevance_score |-> relevance_score]

AgentResult(path, relevance_score) ==
    [entity_type |-> A2A_AGENT, path |-> path, relevance_score |-> relevance_score]

SearchResults(servers, tools, agents) ==
    [servers |-> servers, tools |-> tools, agents |-> agents]

RECURSIVE Concat(_)
Concat(seqs) == IF seqs = <<>> THEN <<>> ELSE Head(seqs) \o Concat(Tail(seqs))

(***************************************************************************)
(* search_mixed over the vectors of the index, given in the order in which *)
(* faiss_index.search returns them for the query.  With n the number of    *)
(* different tokens of the query and l the number of its tokens, the       *)
(* relevance_score of a server or an agent is a fraction of denominator    *)
(* 10000 * n, that of a tool one of denominator 40000 * n * l.             *)
(***************************************************************************)
search_mixed(vectors, query, entity_types, max_results) ==
    LET limit == clamp_max_results(max_results)
        allowed_entity_types == {MCP_SERVER, "tool", A2A_AGENT}
        requested == IF entity_types = {} THEN allowed_entity_types ELSE entity_types
        entity_filter == IF requested \cap allowed_entity_types = {}
                         THEN allowed_entity_types
                         ELSE requested \cap allowed_entity_types
        n == Max(1, Cardinality(Range(tokenize(query))))
        l == Max(1, Len(tokenize(query)))
        top_k == Min(limit, Len(vectors))
        found == SelectSeq(Take(vectors, top_k), LAMBDA hit : hit.entity_type # "none")
        relevance(hit) ==
            Min(10000 * n,
                distance_to_relevance(hit.distance) * calculate_keyword_boost(query, hit.info).num)
        matching_tools(hit) ==
            IF "tool" \in entity_filter
            THEN Take(extract_matching_tools(query, hit.info), MAX_TOOLS_PER_SERVER)
            ELSE <<>>
        tool_relevance(hit, tool) ==
            Score(Min(40000 * n * l, relevance(hit) * 2 * l + tool.raw_score.num * 10000 * n),
                  40000 * n * l)
        tools_of(hit) ==
            [k \in 1..Len(matching_tools(hit)) |->
                ToolResult(hit.path, matching_tools(hit)[k].tool_name,
                           tool_relevance(hit, matching_tools(hit)[k]))]
        server_hits == SelectSeq(found, LAMBDA hit : hit.entity_type = MCP_SERVER)
        agent_hits == SelectSeq(found, LAMBDA hit : hit.entity_type = A2A_AGENT)
        server_results ==
            IF MCP_SERVER \in entity_filter
            THEN [k \in 1..Len(server_hits) |->
                     ServerResult(server_hits[k].path,
                                  Score(relevance(server_hits[k]), 10000 * n),
                                  tools_of(server_hits[k]))]
            ELSE <<>>
        tool_results == Concat([k \in 1..Len(server_hits) |-> tools_of(server_hits[k])])
        agent_results ==
            IF A2A_AGENT \in entity_filter
            THEN [k \in 1..Len(agent_hits) |->
                     AgentResult(agent_hits[k].path, Score(relevance(agent_hits[k]), 10000 * n))]
            ELSE <<>>
        keys(results) == [k \in 1..Len(results) |-> results[k].relevance_score.num]
        bucket(results) == Take(SortDescending(results, keys(results)), limit)
    IN  IF query = <<>> THEN "ValueError"
        ELSE IF vectors = <<>> THEN SearchResults(<<>>, <<>>, <<>>)
        ELSE SearchResults(bucket(server_results), bucket(tool_results), bucket(agent_results))

SearchCall(op, query, info, vectors, entity_types, max_results, done, result) ==
    [op |-> op, query |-> query, info |-> info, vectors |-> vectors,
     entity_types |-> entity_types, max_results |-> max_results, done |-> done,
     result |-> result]

NoSearchCall == SearchCall("none", <<>>, ServerInfo({}, {}, <<>>, <<>>), <<>>, {}, 0, FALSE, "none")

MaxIndexTasks == 2
TaskIds == 1..MaxIndexTasks

UpsertTask(pc, entity_type, path, info, is_enabled, id, existing) ==
    [pc |-> pc, entity_type |-> entity_type, path |-> path, info |-> info,
     is_enabled |-> is_enabled, id |-> id, existing |-> existing]

IdleTask == UpsertTask("idle", "none", <<>>, EntityInfo("", "", FALSE), FALSE, -1, NoEntry)

IndexOp(op, entity_type, path, info, is_enabled, embedded) ==
    [op |-> op, entity_type |-> entity_type, path |-> path, info |-> info,
     is_enabled |-> is_enabled, embedded |-> embedded]

NoIndexOp == IndexOp("none", "none", <<>>, EntityInfo("", "", FALSE), FALSE, FALSE)

(***************************************************************************)
(* Actions: one service call each.                                         *)
(***************************************************************************)
Bounded(s) ==
    /\ Len(s.agent_state.enabled) <= MaxListLen
    /\ Len(s.agent_state.disabled) <= MaxListLen

ApplyStore(out, op) ==
    /\ Bounded(out.store)
    /\ registered_agents' = out.store.registered_agents
    /\ agent_state' = out.store.agent_state
    /\ agent_files' = out.store.agent_files
    /\ state_file' = out.store.state_file
    /\ last_op' = op

\* a call made to the service alone: no request, index or scanner involved
Apply(out, op) ==
    /\ ApplyStore(out, op)
    /\ UNCHANGED <<route_vars, scan_vars, rating_vars, owner_vars, index_vars>>

RegisterAgent(path, desc, save_fault, persist_fault) ==
    /\ path \in Paths
    /\ LET out == register_agent(Current, AgentCard(path, desc, <<>>), save_fault, persist_fault)
       IN  Apply(out, Op("register", path, FALSE, out.result))

ToggleAgent(path, enabled, persist_fault) ==
    /\ path \in Paths
    /\ LET out == toggle_agent(Current, path, enabled, persist_fault)
       IN  Apply(out, Op("toggle", path, enabled, out.result))

DeleteAgent(path, unlink_ok, persist_fault) ==
    /\ path \in Paths
    /\ LET out == delete_agent(Current, path, unlink_ok, persist_fault)
       IN  Apply(out, Op("delete", path, FALSE, out.result))

UpdateAgent(path, desc, save_fault) ==
    /\ path \in DOMAIN registered_agents
    /\ LET out == update_agent(Current, path, desc, save_fault)
       IN  Apply(out, Op("update", path, FALSE, out.result))

UpdateMissingAgent(path) ==
    /\ path \notin DOMAIN registered_agents
    /\ Apply(Outcome(Current, "not_found"), Op("update", path, FALSE, "not_found"))

\* a restart of the process: __init__, then load_agents_and_state
LoadAgentsAndState ==
    /\ LoadOrders(Current) # {}
    /\ \E order \in LoadOrders(Current) :
           Apply(Outcome(load_agents_and_state(Current, order), "ok"),
                 Op("load", <<>>, FALSE, "ok"))

vars == <<registered_agents, agent_state, agent_files, state_file, last_op,
          requests, faiss_is_enabled, scan_config, scan_files, scan_archive, last_scan,
          finished_scans, rating_details, last_rating, metadata_store, next_id_counter,
          faiss_index, faiss_files, index_tasks, last_index_op, removed_paths,
          search_call, route_call, num_stars, registered_by, registered_at, now,
          last_update>>

\* nothing registered, no request received, nothing indexed, nothing scanned
InitState(config, call, called) ==
    /\ registered_agents = EmptyStore.registered_agents
    /\ agent_state = EmptyStore.agent_state
    /\ agent_files = EmptyStore.agent_files
    /\ state_file = EmptyStore.state_file
    /\ last_op = Op("init", <<>>, FALSE, "ok")
    /\ requests = [r \in RequestIds |-> IdleRequest]
    /\ faiss_is_enabled = [p \in Paths |-> "absent"]
    /\ scan_config = config
    /\ scan_files = EmptyDict
    /\ scan_archive = {}
    /\ last_scan = NoScan
    /\ finished_scans = EmptyDict
    /\ rating_details = [p \in Paths |-> <<>>]
    /\ last_rating = NoRating
    /\ metadata_store = NewIndex.metadata_store
    /\ next_id_counter = NewIndex.next_id_counter
    /\ faiss_index = NewIndex.faiss_index
    /\ faiss_files = NewIndex.faiss_files
    /\ index_tasks = [task \in TaskIds |-> IdleTask]
    /\ last_index_op = NoIndexOp
    /\ removed_paths = {}
    /\ search_call = call
    /\ route_call = called
    /\ num_stars = [p \in Paths |-> Score(0, 1)]
    /\ registered_by = [p \in Paths |-> NoUser]
    /\ registered_at = [p \in Paths |-> 0]
    /\ now = 1
    /\ last_update = NoUpdate

InitWith(config) == InitState(config, NoSearchCall, NoRouteCall)

Init == InitWith(DefaultScanConfig)

\* the store with a disk that never fails
Next ==
    \/ \E path \in Paths, desc \in Descs : RegisterAgent(path, desc, "ok", "ok")
    \/ \E path \in Paths, enabled \in BOOLEAN : ToggleAgent(path, enabled, "ok")
    \/ \E path \in Paths : DeleteAgent(path, TRUE, "ok")
    \/ \E path \in Paths, desc \in Descs : UpdateAgent(path, desc, "ok")
    \/ \E path \in Paths : UpdateMissingAgent(path)
    \/ LoadAgentsAndState

Spec == Init /\ [][Next]_vars

(***************************************************************************)
(* Properties of the store.                                                *)
(***************************************************************************)
InEnabled(p) == In(p, agent_state.enabled)
InDisabled(p) == In(p, agent_state.disabled)
Registered(p) == p \in DOMAIN registered_agents
\* the agents directory holds a document of p, under the name the store gives it
EntityFileExists(p) ==
    /\ path_to_filename(p) \in DOMAIN agent_files
    /\ agent_files[path_to_filename(p)].valid
    /\ agent_files[path_to_filename(p)].card.path = p

\* C1: in every reachable state no path is in both the enabled and the
\* disabled list, and a path is in one of the lists if and only if it is a
\* registered agent, which is the case if and only if its entity file exists.
C1_ListsPartitionRegistered ==
    \A p \in Paths :
        /\ ~(InEnabled(p) /\ InDisabled(p))
        /\ (InEnabled(p) \/ InDisabled(p)) <=> Registered(p)
        /\ Registered(p) <=> EntityFileExists(p)

\* C2: right after register_agent succeeded for a path, the path is in the
\* disabled list and is_agent_enabled(path) is false.
C2_RegisteredMeansDisabled ==
    (last_op.op = "register" /\ last_op.result = "ok") =>
        /\ InDisabled(last_op.path)
        /\ ~is_agent_enabled(Current, last_op.path)

After == Store(registered_agents', agent_state', agent_files', state_file')

\* the members of a list, its order and repetitions disregarded
Members(list) == {list[i] : i \in 1..Len(list)}

\* C7: toggle_agent(p, e) applied a second time leaves the store (lists in
\* memory and on disk) as the first call left it; on a registered path the
\* call succeeds and p ends enabled iff e; on an unregistered path it fails
\* and changes nothing.
C7_ToggleIdempotent ==
    [][\A path \in Paths, e \in BOOLEAN :
          ToggleAgent(path, e, "ok") =>
              /\ toggle_agent(After, path, e, "ok").store = After
              /\ Registered(path) =>
                    /\ last_op'.result = "true"
                    /\ is_agent_enabled(After, path) <=> e
              /\ ~Registered(path) =>
                    /\ last_op'.result = "false"
                    /\ UNCHANGED store_vars]_vars

\* C9: what load_agents_and_state builds from the files on disk is the
\* in-memory state: the same registered paths with the same documents and
\* the same members of the enabled and of the disabled list.
C9_ReloadReproducesMemory ==
    \A order \in LoadOrders(Current) :
        LET loaded == load_agents_and_state(Current, order)
        IN  /\ loaded.registered_agents = registered_agents
            /\ Members(loaded.agent_state.enabled) = Members(agent_state.enabled)
            /\ Members(loaded.agent_state.disabled) = Members(agent_state.disabled)

(***************************************************************************)
(* The store over a disk whose writes and unlinks can raise.               *)
(***************************************************************************)
\* the lists stay short here: memory and disk drift apart once a write fails
MaxFaultListLen == 2

FaultBounded ==
    Len(agent_state.enabled) + Len(agent_state.disabled) <= MaxFaultListLen

FaultDesc == "d1"

FaultPaths == {PathAB, PathC}

NextFault ==
    \/ \E path \in FaultPaths, save_fault \in WriteFaults, persist_fault \in WriteFaults :
          RegisterAgent(path, FaultDesc, save_fault, persist_fault) /\ FaultBounded'
    \/ \E path \in FaultPaths, enabled \in BOOLEAN, persist_fault \in WriteFaults :
          ToggleAgent(path, enabled, persist_fault) /\ FaultBounded'
    \/ \E path \in FaultPaths, unlink_ok \in BOOLEAN, persist_fault \in WriteFaults :
          DeleteAgent(path, unlink_ok, persist_fault) /\ FaultBounded'
    \/ \E path \in FaultPaths, save_fault \in WriteFaults :
          UpdateAgent(path, FaultDesc, save_fault) /\ FaultBounded'
    \/ LoadAgentsAndState /\ FaultBounded'

SpecFault == Init /\ [][NextFault]_vars

InPersistedState(p) == In(p, state_file.enabled) \/ In(p, state_file.disabled)

\* C6: register_agent for a path that is registered raises the
\* already-exists error and leaves the registered cards, both lists, the
\* entity files and the state file as they were.
C6_RegisterExistingConflicts ==
    [][\A path \in Paths, desc \in Descs :
          (Registered(path) /\ RegisterAgent(path, desc, "ok", "ok")) =>
              /\ last_op'.result = "exists"
              /\ UNCHANGED store_vars]_vars

\* a registration of a registered path has just been refused
C6_Witness ==
    /\ last_op.op = "register"
    /\ last_op.result = "exists"
    /\ Registered(last_op.path)
    /\ EntityFileExists(last_op.path)

\* C8: delete_agent(p) returns success only with p's entity file, p's
\* entries in both lists (in memory and in the state file) and p's card all
\* gone; when it reports failure p is not half-deleted (registered without
\* an entity file, or listed in the state file without being registered).
C8_DeleteAllOrNothing ==
    last_op.op = "delete" =>
        LET p == last_op.path
        IN  /\ last_op.result = "ok" =>
                  /\ ~EntityFileExists(p)
                  /\ ~InEnabled(p) /\ ~InDisabled(p)
                  /\ ~InPersistedState(p)
                  /\ ~Registered(p)
            /\ last_op.result = "failed" =>
                  /\ ~(Registered(p) /\ ~EntityFileExists(p))
                  /\ ~(InPersistedState(p) /\ ~Registered(p))

(***************************************************************************)
(* Crashes.  Both writers open the target itself with open(path, "w"),     *)
(* which truncates it, and then stream json.dump into it; there is no      *)
(* temporary file and no rename.  A process that dies inside json.dump     *)
(* leaves the target torn.  The process then starts again and lifespan     *)
(* calls load_agents_and_state on what is on disk.                         *)
(***************************************************************************)
Restart(disk, op) ==
    LET s == Store(EmptyDict, EmptyState, disk.agent_files, disk.state_file)
    IN  /\ LoadOrders(s) # {}
        /\ \E order \in LoadOrders(s) :
               Apply(Outcome(load_agents_and_state(s, order), "crashed"), op)

\* register_agent or update_agent dies inside _save_agent_to_disk
CrashInSaveAgent(path, desc) ==
    /\ path \in Paths
    /\ LET tags == IF Registered(path) THEN registered_agents[path].tags ELSE <<>>
           saved == save_agent_to_disk(agent_files, AgentCard(path, desc, tags), "write")
       IN  Restart(Store(registered_agents, agent_state, saved.files, state_file),
                   Op("crash_save", path, FALSE, "crashed"))

\* register_agent dies inside _persist_state_to_disk, its entity file written
CrashInRegisterPersist(path, desc) ==
    /\ ~Registered(path)
    /\ Restart(register_agent(Current, AgentCard(path, desc, <<>>), "ok", "write").store,
               Op("crash_persist", path, FALSE, "crashed"))

\* enable_agent or disable_agent dies inside _persist_state_to_disk
CrashInTogglePersist(path, enabled) ==
    /\ Registered(path)
    /\ ~In(path, IF enabled THEN agent_state.enabled ELSE agent_state.disabled)
    /\ Restart(toggle_agent(Current, path, enabled, "write").store,
               Op("crash_persist", path, enabled, "crashed"))

\* delete_agent dies inside _persist_state_to_disk, its entity file unlinked
CrashInDeletePersist(path) ==
    /\ Registered(path)
    /\ Restart(delete_agent(Current, path, TRUE, "write").store,
               Op("crash_persist", path, FALSE, "crashed"))

NextCrash ==
    \/ \E path \in FaultPaths : RegisterAgent(path, FaultDesc, "ok", "ok")
    \/ \E path \in FaultPaths, enabled \in BOOLEAN : ToggleAgent(path, enabled, "ok")
    \/ \E path \in FaultPaths : DeleteAgent(path, TRUE, "ok")
    \/ \E path \in FaultPaths, desc \in Descs : UpdateAgent(path, desc, "ok")
    \/ \E path \in FaultPaths, desc \in Descs : CrashInSaveAgent(path, desc)
    \/ \E path \in FaultPaths : CrashInRegisterPersist(path, FaultDesc)
    \/ \E path \in FaultPaths, enabled \in BOOLEAN : CrashInTogglePersist(path, enabled)
    \/ \E path \in FaultPaths : CrashInDeletePersist(path)

SpecCrash == Init /\ [][NextCrash]_vars

\* C10: a crash while an entity document or the state document is being
\* written leaves the file complete (its previous or its new content): no
\* file on disk is ever torn, so no load reads a partially written file.
C10_NoTornFile ==
    /\ \A f \in DOMAIN agent_files : agent_files[f].valid
    /\ state_file.exists => state_file.valid

(***************************************************************************)
(* The routes.  A register request is suspended at each await of the       *)
(* route: validate_agent_card, faiss_service.add_or_update_entity (a new   *)
(* entry is embedded in a worker thread) and scan_agent; the code between  *)
(* two awaits runs without interruption.                                   *)
(***************************************************************************)
SetRequest(r, req) == requests' = [requests EXCEPT ![r] = req]

\* POST /agents/register up to the await of validate_agent_card
StartRegister(r, raw_path, tags) ==
    /\ requests[r].pc = "idle"
    /\ LET path == normalize_path(raw_path)
       IN  IF get_agent_info(Current, path)
           THEN SetRequest(r, Request("done", path, tags, FALSE, 409, "none"))
           ELSE SetRequest(r, Request("validating", path, tags, FALSE, 0, "none"))
    /\ UNCHANGED <<store_vars, last_op, faiss_is_enabled, scan_config, scan_vars, rating_vars, owner_vars, index_vars>>

\* from the return of validate_agent_card to the await of add_or_update_entity;
\* the ValueError of agent_service.register_agent is caught nowhere in the route
ValidateDone(r, is_valid, save_fault, persist_fault) ==
    /\ requests[r].pc = "validating"
    /\ LET req == requests[r]
           out == register_agent(Current, AgentCard(req.path, FaultDesc, req.tags),
                                 save_fault, persist_fault)
       IN  IF ~is_valid
           THEN /\ SetRequest(r, [req EXCEPT !.pc = "done", !.status = 422])
                /\ UNCHANGED <<store_vars, last_op>>
           ELSE /\ ApplyStore(out, Op("register", req.path, FALSE, out.result))
                /\ IF out.result = "ok"
                   THEN SetRequest(r, [req EXCEPT !.pc = "indexing",
                                                  !.is_enabled = is_agent_enabled(out.store, req.path)])
                   ELSE SetRequest(r, [req EXCEPT !.pc = "done", !.status = 500])
    /\ UNCHANGED <<faiss_is_enabled, scan_config, scan_vars, rating_vars, owner_vars, index_vars>>

\* from the return of add_or_update_entity to the await of scan_agent
IndexDone(r) ==
    /\ requests[r].pc = "indexing"
    /\ LET req == requests[r]
       IN  /\ faiss_is_enabled' = [faiss_is_enabled EXCEPT ![req.path] =
                                       IF req.is_enabled THEN "enabled" ELSE "disabled"]
           /\ IF scan_config.enabled /\ scan_config.scan_on_registration
              THEN SetRequest(r, [req EXCEPT !.pc = "scanning"])
              ELSE SetRequest(r, [req EXCEPT !.pc = "done", !.status = 201, !.is_enabled = TRUE])
    /\ UNCHANGED <<store_vars, last_op, scan_config, scan_vars, rating_vars, owner_vars, index_vars>>

\* scan_agent on the card's dump, the handling of its verdict and the 201
ScanDone(r, run) ==
    /\ requests[r].pc = "scanning"
    /\ LET req == requests[r]
           scan == scan_agent(ScanArchive(scan_files, scan_archive), req.path, "HttpUrl", run)
           handled == perform_agent_security_scan(Current, faiss_is_enabled, req.path,
                                                  req.tags, scan, scan_config)
           verdict == IF scan.raised THEN "raised"
                      ELSE IF scan.result.is_safe THEN "safe" ELSE "unsafe"
       IN  /\ ApplyStore(Outcome(handled.store, "ok"),
                         Op("scan", req.path, handled.is_enabled, verdict))
           /\ faiss_is_enabled' = handled.faiss
           /\ scan_files' = scan.archive.scan_files
           /\ scan_archive' = scan.archive.scan_archive
           /\ last_scan' = [kind |-> "agent", target |-> req.path, url |-> "HttpUrl",
                            run |-> run, raised |-> scan.raised, result |-> scan.result]
           /\ finished_scans' = DictSet(finished_scans, <<"agent", req.path>>, run)
           /\ SetRequest(r, [req EXCEPT !.pc = "done", !.status = 201,
                                        !.is_enabled = handled.is_enabled,
                                        !.verdict = verdict])
    /\ UNCHANGED <<scan_config, rating_vars, owner_vars, index_vars>>

\* POST /agents/{path}/toggle
ToggleRoute(raw_path, enabled, persist_fault) ==
    /\ raw_path \in RawPaths
    /\ LET path == normalize_path(raw_path)
           out == toggle_agent(Current, path, enabled, persist_fault)
       IN  IF ~get_agent_info(Current, path)
           THEN /\ last_op' = Op("toggle_route", path, enabled, "404")
                /\ UNCHANGED <<store_vars, faiss_is_enabled>>
           ELSE /\ ApplyStore(out, Op("toggle_route", path, enabled, out.result))
                /\ faiss_is_enabled' =
                       IF out.result = "true"
                       THEN [faiss_is_enabled EXCEPT ![path] =
                                 IF enabled THEN "enabled" ELSE "disabled"]
                       ELSE faiss_is_enabled
    /\ UNCHANGED <<requests, scan_config, scan_vars, rating_vars, owner_vars, index_vars>>

\* AgentService.remove_agent: True, or False when delete_agent raised
remove_agent(s, path, unlink_ok, persist_fault) ==
    LET done == delete_agent(s, path, unlink_ok, persist_fault)
    IN  Outcome(done.store, IF done.result = "ok" THEN "true" ELSE "false")

\* DELETE /agents/{path}, called by an admin
DeleteRoute(raw_path, unlink_ok, persist_fault) ==
    /\ raw_path \in RawPaths
    /\ LET path == normalize_path(raw_path)
           out == remove_agent(Current, path, unlink_ok, persist_fault)
       IN  IF ~get_agent_info(Current, path)
           THEN /\ last_op' = Op("delete_route", path, FALSE, "404")
                /\ UNCHANGED <<store_vars, faiss_is_enabled>>
           ELSE /\ ApplyStore(out, Op("delete_route", path, FALSE, out.result))
                /\ faiss_is_enabled' =
                       IF out.result = "true"
                       THEN [faiss_is_enabled EXCEPT ![path] = "absent"]
                       ELSE faiss_is_enabled
    /\ UNCHANGED <<requests, scan_config, scan_vars, rating_vars, owner_vars, index_vars>>

TagSets == {<<>>, <<SECURITY_PENDING>>}

\* scanner runs of a registration scan: clean, a HIGH finding, a failed run
RouteRuns ==
    {ScannerRun("ok", "json", <<>>),
     ScannerRun("ok", "json", <<"HIGH">>),
     ScannerRun("nonzero", "json", <<>>)}

NextRoute ==
    \/ \E r \in RequestIds, raw_path \in RawPaths, tags \in TagSets :
          StartRegister(r, raw_path, tags)
    \/ \E r \in RequestIds, is_valid \in BOOLEAN : ValidateDone(r, is_valid, "ok", "ok")
    \/ \E r \in RequestIds : IndexDone(r)
    \/ \E r \in RequestIds, run \in RouteRuns : ScanDone(r, run)
    \/ \E raw_path \in RawPaths, enabled \in BOOLEAN : ToggleRoute(raw_path, enabled, "ok")

SpecRoute == (\E config \in ScanConfigs : InitWith(config)) /\ [][NextRoute]_vars

\* the register requests for path that were answered after a valid card
Answered(path) ==
    {r \in RequestIds : /\ requests[r].pc = "done"
                        /\ requests[r].path = path
                        /\ requests[r].status # 422}

\* the register requests for path that are suspended at an await
InProgress(path) ==
    {r \in RequestIds : requests[r].pc \notin {"idle", "done"} /\ requests[r].path = path}

\* C3: once they are all answered, of the register requests for one normalized path (their cards valid),
\* exactly one completes successfully (201) and every other one is answered
\* with Conflict (409); the store then holds exactly one entity for the path.
C3_ConcurrentRegisterOneWins ==
    \A path \in Paths :
        (Answered(path) # {} /\ InProgress(path) = {}) =>
            /\ Cardinality({r \in Answered(path) : requests[r].status = 201}) = 1
            /\ \A r \in Answered(path) : requests[r].status \in {201, 409}
            /\ Registered(path)
            /\ EntityFileExists(path)
            /\ Count(path, agent_state.enabled \o agent_state.disabled) = 1

\* C4: when the handling of a registration scan of p ends with an unsafe
\* verdict and block_unsafe_agents is set, p is disabled in the store and the
\* flag handed to the index is disabled, whatever add_security_pending_tag is
\* and whatever toggles ran while the scan was in flight.
C4_UnsafeScanDisables ==
    [][\A r \in RequestIds :
          ( /\ requests[r].pc = "scanning"
            /\ requests'[r].pc = "done"
            /\ requests'[r].verdict = "unsafe"
            /\ scan_config.block_unsafe_agents ) =>
              /\ ~is_agent_enabled(After, requests[r].path)
              /\ faiss_is_enabled'[requests[r].path] = "disabled"]_vars

(***************************************************************************)
(* The scanners called on their own (registration scans and rescans).      *)
(***************************************************************************)
MaxArchive == 2

ServerUrls == {HTTP \o <<"localhost", "/", "s">>, HTTPS \o <<"h">> \o MCP_ENDPOINT,
               HTTPS \o <<"h", "/">>}

ScanPaths == {PathAB, PathA_B, PathC}

ApplyScan(scan, kind, target, url, run) ==
    /\ Cardinality(scan.archive.scan_archive) <= MaxArchive
    /\ scan_files' = scan.archive.scan_files
    /\ scan_archive' = scan.archive.scan_archive
    /\ last_scan' = [kind |-> kind, target |-> target, url |-> url, run |-> run,
                     raised |-> scan.raised, result |-> scan.result]
    /\ finished_scans' = DictSet(finished_scans, <<kind, target>>, run)
    /\ UNCHANGED <<store_vars, last_op, route_vars, rating_vars, owner_vars, index_vars>>

ScanAgent(agent_path, url, run) ==
    /\ agent_path \in ScanPaths
    /\ ApplyScan(scan_agent(ScanArchive(scan_files, scan_archive), agent_path, url, run),
                 "agent", agent_path, url, run)

ScanServer(server_url, run) ==
    /\ server_url \in ServerUrls
    /\ ApplyScan(scan_server(ScanArchive(scan_files, scan_archive), server_url, run),
                 "server", server_url, "str", run)

NextScan ==
    \/ \E agent_path \in ScanPaths, url \in UrlKinds, run \in ScannerRuns :
          ScanAgent(agent_path, url, run)
    \/ \E server_url \in ServerUrls, run \in ScannerRuns : ScanServer(server_url, run)

SpecScan == Init /\ [][NextScan]_vars

\* C5: a scan whose scanner subprocess failed, timed out or printed output
\* that cannot be parsed does not raise: it returns is_safe = false,
\* scan_failed = true and an error message, and the error payload is in the
\* scan archive.
C5_ScannerFailureFailsClosed ==
    (last_scan.kind # "none" /\ FailedRun(last_scan.run)) =>
        /\ ~last_scan.raised
        /\ ~last_scan.result.is_safe
        /\ last_scan.result.scan_failed
        /\ last_scan.result.error_message # ""
        /\ \E e \in scan_archive :
              /\ e[1] = last_scan.kind
              /\ e[3] = ErrorOutput(last_scan.result.error_message)

(***************************************************************************)
(* The routes over a disk whose writes and unlinks can raise.              *)
(***************************************************************************)
RouteFaultRuns == {ScannerRun("ok", "json", <<"HIGH">>)}

NextRouteFault ==
    \/ \E r \in RequestIds, raw_path \in {SlashC}, tags \in TagSets :
          StartRegister(r, raw_path, tags)
    \/ \E r \in RequestIds, save_fault \in WriteFaults, persist_fault \in WriteFaults :
          ValidateDone(r, TRUE, save_fault, persist_fault)
    \/ \E r \in RequestIds : IndexDone(r)
    \/ \E r \in RequestIds, run \in RouteFaultRuns : ScanDone(r, run)
    \/ \E enabled \in BOOLEAN, persist_fault \in WriteFaults :
          ToggleRoute(SlashC, enabled, persist_fault)
    \/ \E unlink_ok \in BOOLEAN, persist_fault \in WriteFaults :
          DeleteRoute(SlashC, unlink_ok, persist_fault)

SpecRouteFault == Init /\ [][NextRouteFault]_vars

\* the store call of a route has just returned success and the route goes on
\* to the index
GoesOnToIndex(op) == last_op.op = op /\ last_op.result \in {"ok", "true"}

\* C11: when a route goes on to the index upsert or remove of a transition,
\* the transition is in the state file (and, for a registration, the entity
\* file was written; for a deletion, it is gone): entity file, then state
\* file, then index.
C11_FilesBeforeIndex ==
    LET p == last_op.path
    IN  /\ GoesOnToIndex("register") =>
              EntityFileExists(p) /\ In(p, state_file.disabled)
        /\ GoesOnToIndex("toggle_route") =>
              In(p, IF last_op.enabled THEN state_file.enabled ELSE state_file.disabled)
        /\ GoesOnToIndex("delete_route") =>
              ~EntityFileExists(p) /\ ~InPersistedState(p)
        /\ (last_op.op = "scan" /\ ~last_op.enabled) =>
              In(p, state_file.disabled)

\* C12: a registration request validates, writes the store, upserts the
\* index, produces its success response and only then starts the scan: a
\* request whose scan is in flight has been answered (201) already, after
\* its store write and its index upsert.
C12_ResponseBeforeScan ==
    \A r \in RequestIds :
        /\ requests[r].pc = "indexing" =>
              /\ requests[r].status = 0
              /\ Registered(requests[r].path)
        /\ requests[r].pc = "scanning" =>
              /\ requests[r].status = 201
              /\ faiss_is_enabled[requests[r].path] # "absent"

memory_vars == <<registered_agents, agent_state>>

\* C13: when a disk write of register, toggle or delete fails, the operation
\* reports failure and registered_agents and both lists are what they were
\* before the operation.
C13_FailedWriteRollsBack ==
    [][\A path \in FaultPaths, save_fault \in WriteFaults, persist_fault \in WriteFaults :
          /\ ( /\ ~Registered(path)
               /\ save_fault # "ok" \/ persist_fault # "ok"
               /\ RegisterAgent(path, FaultDesc, save_fault, persist_fault) ) =>
                 (last_op'.result # "ok" /\ UNCHANGED memory_vars)
          /\ \A enabled \in BOOLEAN :
               ( /\ Registered(path)
                 /\ ~In(path, IF enabled THEN agent_state.enabled ELSE agent_state.disabled)
                 /\ persist_fault # "ok"
                 /\ ToggleAgent(path, enabled, persist_fault) ) =>
                   (last_op'.result = "false" /\ UNCHANGED memory_vars)
          /\ ( /\ Registered(path)
               /\ persist_fault # "ok"
               /\ DeleteAgent(path, TRUE, persist_fault) ) =>
                 (last_op'.result # "ok" /\ UNCHANGED memory_vars)]_vars

(***************************************************************************)
(* POST /agents/{path}/rescan, called by an admin.  The route puts a "/"   *)
(* in front of the path when there is none, looks the agent up, awaits     *)
(* scan_agent on the card's dump and returns the fields of the result.     *)
(***************************************************************************)
StartRescan(r, raw_path) ==
    /\ requests[r].pc = "idle"
    /\ LET path == IF StartsWith(raw_path, <<"/">>) THEN raw_path ELSE <<"/">> \o raw_path
       IN  IF ~get_agent_info(Current, path)
           THEN SetRequest(r, Request("done", path, <<>>, FALSE, 404, "none"))
           ELSE SetRequest(r, Request("rescanning", path, <<>>, FALSE, 0, "none"))
    /\ UNCHANGED <<store_vars, last_op, faiss_is_enabled, scan_config, scan_vars, rating_vars, owner_vars, index_vars>>

\* from the return of scan_agent to the response: 200 with the result, or
\* 500 when scan_agent raised
RescanDone(r, run) ==
    /\ requests[r].pc = "rescanning"
    /\ LET req == requests[r]
           scan == scan_agent(ScanArchive(scan_files, scan_archive), req.path, "HttpUrl", run)
           verdict == IF scan.raised THEN "raised"
                      ELSE IF scan.result.is_safe THEN "safe" ELSE "unsafe"
       IN  /\ scan_files' = scan.archive.scan_files
           /\ scan_archive' = scan.archive.scan_archive
           /\ last_scan' = [kind |-> "agent", target |-> req.path, url |-> "HttpUrl",
                            run |-> run, raised |-> scan.raised, result |-> scan.result]
           /\ finished_scans' = DictSet(finished_scans, <<"agent", req.path>>, run)
           /\ last_op' = Op("rescan", req.path, is_agent_enabled(Current, req.path), verdict)
           /\ SetRequest(r, [req EXCEPT !.pc = "done",
                                        !.status = IF scan.raised THEN 500 ELSE 200,
                                        !.verdict = verdict])
    /\ UNCHANGED <<store_vars, faiss_is_enabled, scan_config, rating_vars, owner_vars, index_vars>>

\* registration, toggle and rescan of one agent
NextRescan ==
    \/ \E r \in RequestIds, tags \in TagSets : StartRegister(r, SlashC, tags)
    \/ \E r \in RequestIds : ValidateDone(r, TRUE, "ok", "ok")
    \/ \E r \in RequestIds : IndexDone(r)
    \/ \E r \in RequestIds, run \in RouteRuns : ScanDone(r, run)
    \/ \E enabled \in BOOLEAN : ToggleRoute(SlashC, enabled, "ok")
    \/ \E r \in RequestIds, raw_path \in {SlashC, PathC} : StartRescan(r, raw_path)
    \/ \E r \in RequestIds, run \in RouteRuns : RescanDone(r, run)

SpecRescan == Init /\ [][NextRescan]_vars

\* the tags of the card in p's entity file
FileTags(p) == agent_files[path_to_filename(p)].card.tags

\* C14: once a scan of p has ended with an unsafe verdict while
\* add_security_pending_tag is set, the agent is registered, the tags of its
\* card, in memory and in its entity file, hold 'security-pending' exactly
\* once, and its description is the one it was registered with.
C14_SecurityPendingTagOnce ==
    \A r \in RequestIds :
        ( /\ requests[r].pc = "done"
          /\ requests[r].verdict = "unsafe"
          /\ scan_config.add_security_pending_tag ) =>
            LET p == requests[r].path
            IN  /\ Registered(p)
                /\ Count(SECURITY_PENDING, registered_agents[p].tags) = 1
                /\ EntityFileExists(p)
                /\ Count(SECURITY_PENDING, FileTags(p)) = 1
                /\ registered_agents[p].desc = FaultDesc
                /\ agent_files[path_to_filename(p)].card.desc = FaultDesc

\* C15: when a rescan of p ends with an unsafe verdict while
\* block_unsafe_agents is set, p is disabled once the rescan has been
\* answered, whatever toggles were applied before the verdict.
C15_UnsafeRescanDisables ==
    ( /\ last_op.op = "rescan"
      /\ last_op.result = "unsafe"
      /\ scan_config.block_unsafe_agents ) =>
        /\ ~last_op.enabled
        /\ ~is_agent_enabled(Current, last_op.path)

\* a scan has returned a result
ScanReturned == last_scan.kind # "none" /\ ~last_scan.raised

\* C16 as stated: every result returned by scan_agent or scan_server, of a
\* successful or of a failed scan, has is_safe exactly when it counts no
\* critical and no high finding.
C16_SafeIffNoSevereFindingAnyScan ==
    ScanReturned =>
        (last_scan.result.is_safe <=>
            (last_scan.result.critical_issues = 0 /\ last_scan.result.high_severity = 0))

\* C16 amended: the result of a scan that did not fail has is_safe exactly
\* when it counts no critical and no high finding, and a scan without
\* findings is safe; the result of a failed scan has is_safe = false and
\* counts no finding.
C16_SafeIffNoSevereFinding ==
    ScanReturned =>
        LET result == last_scan.result
        IN  IF result.scan_failed
            THEN /\ ~result.is_safe
                 /\ result.critical_issues = 0
                 /\ result.high_severity = 0
            ELSE /\ result.is_safe <=>
                        (result.critical_issues = 0 /\ result.high_severity = 0)
                 /\ result.raw_output.findings = <<>> => result.is_safe

\* a scan that ran to its end and found one high finding is not safe
C16_Witness ==
    /\ ScanReturned
    /\ ~last_scan.result.scan_failed
    /\ last_scan.result.high_severity = 1
    /\ last_scan.result.critical_issues = 0
    /\ ~last_scan.result.is_safe

\* the payload a scan with this scanner run leaves in the archive
SavedOutput(kind, run) ==
    LET ran == IF kind = "agent" THEN run_a2a_scanner(run) ELSE run_mcp_scanner(run)
    IN  IF ran.raised THEN ErrorOutput(ran.error) ELSE ran.value

get_scan_result(kind, target) ==
    IF kind = "agent" THEN get_agent_scan_result(scan_files, target)
    ELSE get_server_scan_result(scan_files, target)

\* C17: get_scan_result for an agent path or a server proxy URL returns the
\* output of the scan of that entity that finished last, and no-scan exactly
\* when no scan of the entity has finished.
C17_LatestScanIsReturned ==
    /\ \A agent_path \in ScanPaths :
          get_scan_result("agent", agent_path) =
              IF <<"agent", agent_path>> \in DOMAIN finished_scans
              THEN SavedOutput("agent", finished_scans[<<"agent", agent_path>>])
              ELSE NoScanResult
    /\ \A server_url \in ServerUrls :
          get_scan_result("server", server_url) =
              IF <<"server", server_url>> \in DOMAIN finished_scans
              THEN SavedOutput("server", finished_scans[<<"server", server_url>>])
              ELSE NoScanResult

(***************************************************************************)
(* Scanner subprocesses.  scan_agent and scan_server hand the subprocess   *)
(* to asyncio.to_thread as soon as they are called; a request at           *)
(* "scanning" or "rescanning" has a scanner subprocess running.  The code  *)
(* reads no concurrency setting; the maximum taken here is one less than   *)
(* the number of requests that can be in flight.                           *)
(***************************************************************************)
MaxConcurrentScans == MaxRequests - 1

RunningScans == {r \in RequestIds : requests[r].pc \in {"scanning", "rescanning"}}

\* C18: the number of scanner subprocesses running at the same time never
\* exceeds the configured maximum concurrency.
C18_ScanConcurrencyBounded == Cardinality(RunningScans) <= MaxConcurrentScans

(***************************************************************************)
(* Ratings of the registered agents.                                       *)
(***************************************************************************)
RatedPaths == {PathC, PathAB}

UpdateRating(path, username, rating, save_fault) ==
    /\ path \in RatedPaths
    /\ LET out == update_rating(Current, rating_details, path, username, rating, save_fault)
       IN  /\ ApplyStore(Outcome(out.store, out.result),
                         Op("update_rating", path, FALSE, out.result))
           /\ rating_details' = out.details
           /\ num_stars' = IF out.result = "ok"
                           THEN [num_stars EXCEPT ![path] = out.num_stars]
                           ELSE num_stars
           /\ last_rating' = Rating(path, username, rating, out.result, out.is_new_rating,
                                    Len(rating_details[path]))
    /\ UNCHANGED <<route_vars, scan_vars, index_vars, owner_vars>>

NextRating ==
    \/ RegisterAgent(PathC, FaultDesc, "ok", "ok")
    \/ \E path \in RatedPaths, username \in Users, rating \in Ratings,
          save_fault \in {"ok", "open"} :
          UpdateRating(path, username, rating, save_fault)

SpecRating == Init /\ [][NextRating]_vars

\* C19: the rating buffer of every agent has at most MAX_RATINGS_PER_RESOURCE
\* entries (100 in the source) and no user is in more than one entry.
C19_RatingBufferBounded ==
    \A path \in Paths :
        /\ Len(rating_details[path]) <= MAX_RATINGS_PER_RESOURCE
        /\ \A username \in Users : Cardinality(EntriesOf(rating_details[path], username)) <= 1

\* a rating of a new user has just pushed the oldest entry out of a full buffer
C19_Witness ==
    /\ last_rating.result = "ok"
    /\ last_rating.is_new_rating
    /\ last_rating.len_before = MAX_RATINGS_PER_RESOURCE
    /\ Len(rating_details[last_rating.path]) = MAX_RATINGS_PER_RESOURCE

\* C20: a rating accepted from a user who is already in the buffer changes
\* the value of that user's entry and nothing else: the buffer keeps its
\* length, its users in their order and every other value, and the user has
\* one entry, with the new value.
C20_RatingUpdatedInPlace ==
    [][( /\ last_op'.op = "update_rating"
         /\ last_rating'.result = "ok"
         /\ EntriesOf(rating_details[last_rating'.path], last_rating'.user) # {} ) =>
           LET old == rating_details[last_rating'.path]
               new == rating_details'[last_rating'.path]
           IN  /\ Len(new) = Len(old)
               /\ \A i \in 1..Len(old) :
                     /\ new[i].user = old[i].user
                     /\ new[i].rating = IF old[i].user = last_rating'.user
                                        THEN last_rating'.rating
                                        ELSE old[i].rating
               /\ Cardinality(EntriesOf(new, last_rating'.user)) = 1]_vars

\* a user who is not the last of a full buffer has rated again
C20_Witness ==
    /\ last_rating.result = "ok"
    /\ ~last_rating.is_new_rating
    /\ Len(rating_details[last_rating.path]) = MAX_RATINGS_PER_RESOURCE
    /\ rating_details[last_rating.path][1] = RatingEntry(last_rating.user, last_rating.rating)

\* C21: a rating accepted from a user who is not in the buffer is appended as
\* the newest entry; when the buffer was full, exactly the oldest entry is
\* dropped and the others keep their order.
C21_NewRatingAppendedOldestDropped ==
    [][( /\ last_op'.op = "update_rating"
         /\ last_rating'.result = "ok"
         /\ EntriesOf(rating_details[last_rating'.path], last_rating'.user) = {} ) =>
           LET old == rating_details[last_rating'.path]
               new == rating_details'[last_rating'.path]
               entry == RatingEntry(last_rating'.user, last_rating'.rating)
           IN  /\ last_rating'.is_new_rating
               /\ new = IF Len(old) < MAX_RATINGS_PER_RESOURCE
                        THEN old \o <<entry>>
                        ELSE Tail(old) \o <<entry>>]_vars

\* a new user's rating is the newest entry of a buffer that was full before
C21_Witness ==
    /\ last_rating.result = "ok"
    /\ last_rating.is_new_rating
    /\ last_rating.len_before = MAX_RATINGS_PER_RESOURCE
    /\ Len(rating_details[last_rating.path]) = MAX_RATINGS_PER_RESOURCE
    /\ rating_details[last_rating.path][MAX_RATINGS_PER_RESOURCE] =
           RatingEntry(last_rating.user, last_rating.rating)

(***************************************************************************)
(* The index service called on its own, as the routes, the lifespan and    *)
(* the unit tests call it.  Upserts that embed are suspended in            *)
(* asyncio.to_thread; other calls of the service run in between.           *)
(***************************************************************************)
MaxIds == 2

IndexPaths == {PathC, PathAB}

\* the agent and the server that are indexed
IndexedEntities == {<<A2A_AGENT, PathC>>, <<MCP_SERVER, PathAB>>}

ApplyIndex(ix, op) ==
    /\ metadata_store' = ix.metadata_store
    /\ next_id_counter' = ix.next_id_counter
    /\ faiss_index' = ix.faiss_index
    /\ faiss_files' = ix.faiss_files
    /\ last_index_op' = op
    /\ UNCHANGED <<store_vars, last_op, route_vars, scan_vars, rating_vars, owner_vars, search_call,
                   route_call>>

\* the call up to its first await, and to its end when nothing is embedded
Upsert(task, entity_type, path, info, is_enabled) ==
    /\ index_tasks[task].pc = "idle"
    /\ removed_paths' = removed_paths \ {path}
    /\ \A other \in TaskIds : other < task => index_tasks[other].pc # "idle"
    /\ begin_upsert(CurrentIndex, path, info).index.next_id_counter <= MaxIds
    /\ LET begun == begin_upsert(CurrentIndex, path, info)
       IN  IF begun.needs_new_embedding
           THEN /\ ApplyIndex(begun.index, last_index_op)
                /\ index_tasks' = [index_tasks EXCEPT ![task] =
                       UpsertTask("encoding", entity_type, path, info, is_enabled,
                                  begun.id, begun.existing)]
           ELSE /\ ApplyIndex(end_upsert(begun.index, entity_type, path, info, is_enabled,
                                         begun.id, begun.existing, FALSE, TRUE),
                              IndexOp("upsert", entity_type, path, info, is_enabled, FALSE))
                /\ UNCHANGED index_tasks

\* encode has returned or raised
EncodeDone(task, encoded) ==
    /\ index_tasks[task].pc = "encoding"
    /\ LET u == index_tasks[task]
       IN  ApplyIndex(end_upsert(CurrentIndex, u.entity_type, u.path, u.info, u.is_enabled,
                                 u.id, u.existing, TRUE, encoded),
                      IndexOp(IF encoded THEN "upsert" ELSE "upsert_failed",
                              u.entity_type, u.path, u.info, u.is_enabled, encoded))
    /\ index_tasks' = [index_tasks EXCEPT ![task] = IdleTask]
    /\ UNCHANGED removed_paths

RemoveEntity(path) ==
    /\ path \in IndexPaths
    /\ ApplyIndex(remove_from_index(CurrentIndex, path),
                  IndexOp("remove", "none", path, EntityInfo("", "", FALSE), FALSE, FALSE))
    /\ removed_paths' = removed_paths \cup {path}
    /\ UNCHANGED index_tasks

NextIndex ==
    \/ \E task \in TaskIds, entity \in IndexedEntities, info \in EntityInfos,
          is_enabled \in BOOLEAN :
          Upsert(task, entity[1], entity[2], info, is_enabled)
    \/ \E task \in TaskIds, encoded \in BOOLEAN : EncodeDone(task, encoded)
    \/ \E path \in IndexPaths : RemoveEntity(path)

SpecIndex == Init /\ [][NextIndex]_vars

\* C22: next_id_counter never decreases, a path keeps its id for as long as
\* its metadata record exists, whatever upserts run, and no two metadata
\* records hold the same id.
C22_IdsStable ==
    [][/\ next_id_counter' >= next_id_counter
       /\ \A path \in IndexPaths :
             (path \in DOMAIN metadata_store /\ path \in DOMAIN metadata_store') =>
                 metadata_store'[path].id = metadata_store[path].id
       /\ \A p, q \in DOMAIN metadata_store' :
             metadata_store'[p].id = metadata_store'[q].id => p = q]_vars

\* C23: an upsert of an indexed path whose text is unchanged embeds nothing
\* and leaves the vectors and next_id_counter as they are, and the metadata
\* record then holds the snapshot and the is_enabled that were passed in.
C23_SameTextUpsertUpdatesRecord ==
    [][( /\ last_index_op'.op = "upsert"
         /\ ~last_index_op'.embedded
         /\ index_tasks' = index_tasks ) =>
           LET op == last_index_op'
           IN  /\ faiss_index' = faiss_index
               /\ next_id_counter' = next_id_counter
               /\ op.path \in DOMAIN metadata_store'
               /\ metadata_store'[op.path].snapshot =
                      EntityInfo(op.info.text, op.info.extra, op.is_enabled)]_vars

\* C24: a path that was removed from the index, and of which no upsert was
\* called since the removal returned, is returned by no search; its vector may
\* still be in the index.
C24_RemovedNotSearchable ==
    \A path \in removed_paths : path \notin SearchablePaths(CurrentIndex)

\* C25: every path that has a record in the index is registered in the store
\* of its kind (here: the agents), also after deletes.
C25_IndexedPathsAreRegistered ==
    \A path \in Paths : faiss_is_enabled[path] # "absent" => Registered(path)

(***************************************************************************)
(* The search functions called on their own: a call is drawn with its      *)
(* arguments, and one step evaluates it.                                   *)
(***************************************************************************)
MaxQueryLen == 2
MaxHits == 3

QueryWords == {"alpha", "alphabet", "beta", "the", "ab"}

RECURSIVE SeqsUpTo(_, _)
SeqsUpTo(S, len) ==
    IF len = 0 THEN {<<>>}
    ELSE LET shorter == SeqsUpTo(S, len - 1)
         IN  shorter \cup {Append(seq, x) : seq \in shorter, x \in S}

\* a query of 21 different tokens, one of them "alpha"
LongQuery ==
    <<"alpha", "w02", "w03", "w04", "w05", "w06", "w07", "w08", "w09", "w10", "w11",
      "w12", "w13", "w14", "w15", "w16", "w17", "w18", "w19", "w20", "w21">>

Queries == SeqsUpTo(QueryWords, MaxQueryLen) \cup {LongQuery}

SearchTexts == {{}, {"other"}, {"alphabet"}, {"alpha", "beta"}}

NamedTool(name) == Tool(name, {})

\* tool lists and tag lists with no, one, two and three matches of "alpha"
BoostToolLists ==
    {<<>>, <<NamedTool({"other"})>>, <<NamedTool({"alpha"})>>,
     <<NamedTool({"alpha"}), NamedTool({"other"})>>,
     <<NamedTool({"alphabet"}), NamedTool({"other"}), NamedTool({"alpha"})>>,
     <<NamedTool({"alpha"}), NamedTool({"alpha"}), NamedTool({"alpha", "beta"})>>}

BoostTagLists ==
    {<<>>, <<{"other"}>>, <<{"beta"}>>, <<{"alpha"}, {"other"}>>,
     <<{"alpha"}, {"alphabet"}>>, <<{"alpha"}, {"beta"}, {"alpha", "beta"}>>}

BoostInfos ==
    {ServerInfo(name, description, tags, tools) :
        name \in SearchTexts, description \in SearchTexts, tags \in BoostTagLists,
        tools \in BoostToolLists}

ExtractTools ==
    {Tool({"alpha"}, {"alpha"}), Tool({"other"}, {"beta"}), Tool({"other"}, {"other"}),
     Tool({}, {})}

ToolInfos ==
    {ServerInfo(name, {}, <<>>, tools) :
        name \in SearchTexts, tools \in SeqsUpTo(ExtractTools, MAX_TOOLS_PER_SERVER + 1)}

\* the servers and the agent of the index that is searched, and a vector
\* that no metadata record refers to
SearchEntities ==
    {Hit(PathAB, MCP_SERVER,
         ServerInfo({"alpha"}, {"beta"}, <<>>,
                    <<Tool({"alpha"}, {"other"}), Tool({"other"}, {"beta"}),
                      Tool({"other"}, {"other"})>>), 0),
     Hit(PathA_B, MCP_SERVER,
         ServerInfo({"other"}, {}, <<{"alpha"}>>,
                    <<Tool({"beta"}, {"beta"}), Tool({"alpha"}, {})>>), 0),
     Hit(PathC, A2A_AGENT,
         ServerInfo({"alphabet"}, {"other"}, <<>>, <<NamedTool({"alpha"})>>), 0),
     Hit(<<>>, "none", ServerInfo({}, {}, <<>>, <<>>), 0)}

\* inner products, in hundredths
Distances == {-90, 30}

\* faiss_index.search returns the nearest vectors first: the greatest inner
\* product comes first, and no vector comes twice
SearchVectors ==
    {vectors \in SeqsUpTo({[hit EXCEPT !.distance = d] : hit \in SearchEntities, d \in Distances},
                          MaxHits) :
        /\ \A i, j \in 1..Len(vectors) : i < j => vectors[i].distance >= vectors[j].distance
        /\ \A i, j \in 1..Len(vectors) : vectors[i].path = vectors[j].path => i = j}

SearchQueries == {<<>>, <<"the">>, <<"alpha">>, <<"alpha", "beta">>}

EntityTypeSets == {{}, {"tool"}, {A2A_AGENT}, {MCP_SERVER, "tool"}}

MaxResults == {-1, 0, 1, MAX_SEARCH_RESULTS, MAX_SEARCH_RESULTS + 1}

NoInfo == ServerInfo({}, {}, <<>>, <<>>)

BoostCall(query, info) == SearchCall("keyword_boost", query, info, <<>>, {}, 0, FALSE, "none")

ExtractCall(query, info) ==
    SearchCall("extract_matching_tools", query, info, <<>>, {}, 0, FALSE, "none")

MixedCall(query, vectors, entity_types, max_results) ==
    SearchCall("search_mixed", query, NoInfo, vectors, entity_types, max_results, FALSE, "none")

InitSearch ==
    \/ \E query \in Queries, info \in BoostInfos :
          InitState(DefaultScanConfig, BoostCall(query, info), NoRouteCall)
    \/ \E query \in Queries, info \in ToolInfos :
          InitState(DefaultScanConfig, ExtractCall(query, info), NoRouteCall)
    \/ \E query \in SearchQueries, vectors \in SearchVectors, entity_types \in EntityTypeSets,
          max_results \in MaxResults :
          InitState(DefaultScanConfig, MixedCall(query, vectors, entity_types, max_results),
                    NoRouteCall)

Return(result) ==
    /\ search_call' = [search_call EXCEPT !.done = TRUE, !.result = result]
    /\ UNCHANGED <<store_vars, last_op, route_vars, scan_vars, rating_vars, owner_vars, metadata_store,
                   next_id_counter, faiss_index, faiss_files, index_tasks, last_index_op,
                   removed_paths, route_call>>

KeywordBoost ==
    /\ search_call.op = "keyword_boost"
    /\ ~search_call.done
    /\ Return(calculate_keyword_boost(search_call.query, search_call.info))

ExtractMatchingTools ==
    /\ search_call.op = "extract_matching_tools"
    /\ ~search_call.done
    /\ Return(extract_matching_tools(search_call.query, search_call.info))

SearchMixed ==
    /\ search_call.op = "search_mixed"
    /\ ~search_call.done
    /\ Return(search_mixed(search_call.vectors, search_call.query, search_call.entity_types,
                           search_call.max_results))

NextSearch ==
    \/ KeywordBoost
    \/ ExtractMatchingTools
    \/ SearchMixed

SpecSearch == InitSearch /\ [][NextSearch]_vars

\* the search_mixed call has returned its three buckets
Searched == search_call.op = "search_mixed" /\ search_call.done /\ search_call.query # <<>>

NonIncreasing(results) ==
    \A i, j \in 1..Len(results) :
        i < j => results[i].relevance_score.num >= results[j].relevance_score.num

\* C26: search_mixed takes max_results as clamped to [1, MAX_SEARCH_RESULTS]:
\* each of the buckets servers, tools and agents holds at most that many
\* results, ordered by relevance_score, non-increasing; over an index with no
\* vectors the three buckets are empty.
C26_BucketsBoundedAndOrdered ==
    Searched =>
        LET limit == IF search_call.max_results < 1 THEN 1
                     ELSE IF search_call.max_results > MAX_SEARCH_RESULTS
                     THEN MAX_SEARCH_RESULTS
                     ELSE search_call.max_results
            result == search_call.result
        IN  /\ \A bucket \in {result.servers, result.tools, result.agents} :
                  Len(bucket) <= limit /\ NonIncreasing(bucket)
            /\ search_call.vectors = <<>> =>
                  result = SearchResults(<<>>, <<>>, <<>>)

\* more than MAX_SEARCH_RESULTS were asked for and found, and the servers and
\* the tools fill their buckets, the better result first
C26_Witness ==
    /\ Searched
    /\ search_call.max_results > MAX_SEARCH_RESULTS
    /\ Len(search_call.vectors) > MAX_SEARCH_RESULTS
    /\ Len(search_call.result.servers) = MAX_SEARCH_RESULTS
    /\ Len(search_call.result.tools) = MAX_SEARCH_RESULTS
    /\ search_call.result.tools[1].relevance_score.num >
           search_call.result.tools[MAX_SEARCH_RESULTS].relevance_score.num

\* the _calculate_keyword_boost call has returned
Boosted == search_call.op = "keyword_boost" /\ search_call.done

\* C27: _calculate_keyword_boost returns a value in [1.0, 2.0]: 1.0 when the
\* query has no token that is longer than 2 and no stopword, and otherwise
\* 1.0 plus 0.5 for a name match, 0.3 per matching tool or skill name (at most
\* 0.6), 0.2 per matching tag (at most 0.4) and 0.2 times the share of the
\* tokens found in the description, capped at 2.0.
C27_KeywordBoostValue ==
    Boosted =>
        LET tokens == Range(tokenize(search_call.query))
            n == Cardinality(tokens)
            info == search_call.info
            boost == search_call.result
            name == IF NameMatch(tokens, info) THEN 50 ELSE 0
            tools == IF ToolMatches(tokens, info) >= 2 THEN 60
                     ELSE 30 * ToolMatches(tokens, info)
            tags == IF TagMatches(tokens, info) >= 2 THEN 40 ELSE 20 * TagMatches(tokens, info)
            sum == (100 + name + tools + tags) * n + 20 * DescMatches(tokens, info)
        IN  /\ boost.den <= boost.num /\ boost.num <= 2 * boost.den
            /\ tokens = {} => boost.num = boost.den
            /\ tokens # {} =>
                  boost.num * 100 * n = boost.den * (IF sum > 200 * n THEN 200 * n ELSE sum)

\* the _extract_matching_tools call has returned
Extracted == search_call.op = "extract_matching_tools" /\ search_call.done

\* the tools in the order of their raw_score, non-increasing
BestFirst(matches) ==
    \A i, j \in 1..Len(matches) : i < j => matches[i].raw_score.num >= matches[j].raw_score.num

\* matches holds, for every tool of rated, one match with its name and score
\* (score[i] is the score of rated[i], in halves of a token), and nothing else
MatchesAre(matches, rated, score, tokens, tool_list) ==
    /\ Len(matches) = Len(rated)
    /\ \A match \in Range(matches) :
          Count(match, matches) =
              Cardinality({k \in 1..Len(rated) :
                              match = ToolMatch(tool_list[rated[k]].name,
                                                Score(score[rated[k]], 2 * Len(tokens)))})

\* every server of a search result has at most MAX_TOOLS_PER_SERVER tools,
\* with the server itself and in the bucket of the tools
FewToolsPerServer ==
    Searched =>
        /\ \A i \in 1..Len(search_call.result.servers) :
              Len(search_call.result.servers[i].matching_tools) <= MAX_TOOLS_PER_SERVER
        /\ \A path \in Paths :
              Cardinality({i \in 1..Len(search_call.result.tools) :
                              search_call.result.tools[i].server_path = path})
                  <= MAX_TOOLS_PER_SERVER

MaxPathLen == 3

\* paths as a client can write them: slashes and names in any order
PathInputs == SeqsUpTo({"/", "x", "y"}, MaxPathLen)

UserNames == {"alice", "bob"}
Groups == {"g1", "g2"}
Visibilities == {PUBLIC, PRIVATE, GROUP_RESTRICTED, "internal"}

AccessCards ==
    {AccessCard(PathC, visibility, by, allowed_groups) :
        visibility \in Visibilities, by \in UserNames,
        allowed_groups \in {{}, {"g1"}, {"g1", "g2"}}}

UserContexts ==
    {UserContext(username, is_admin, groups, accessible_agents) :
        username \in UserNames, is_admin \in BOOLEAN, groups \in {{}, {"g2"}, {"g1"}},
        accessible_agents \in {{}, {ALL}, {PathC}, {PathAB}}}

InitRouteCalls ==
    \/ \E raw_path \in PathInputs :
          InitState(DefaultScanConfig, NoSearchCall,
                    RouteCall("normalize_path", raw_path, NoAccessCard, NoUserContext,
                              FALSE, <<>>))
    \/ \E raw_path \in {SlashC, PathCSlash, PathAB}, agent \in AccessCards,
          user_context \in UserContexts :
          InitState(DefaultScanConfig, NoSearchCall,
                    RouteCall("get_agent", raw_path, agent, user_context, FALSE, 0))

Answer(result) ==
    /\ route_call' = [route_call EXCEPT !.done = TRUE, !.result = result]
    /\ UNCHANGED <<store_vars, last_op, route_vars, scan_vars, rating_vars, owner_vars, metadata_store,
                   next_id_counter, faiss_index, faiss_files, index_tasks, last_index_op,
                   removed_paths, search_call>>

NormalizePath ==
    /\ route_call.op = "normalize_path"
    /\ ~route_call.done
    /\ Answer(normalize_path(route_call.raw_path))

GetAgent ==
    /\ route_call.op = "get_agent"
    /\ ~route_call.done
    /\ Answer(get_agent(DictSet(EmptyDict, route_call.agent.path, route_call.agent),
                        route_call.raw_path, route_call.user_context))

NextRouteCalls ==
    \/ NormalizePath
    \/ GetAgent

SpecRouteCalls == InitRouteCalls /\ [][NextRouteCalls]_vars

\* GET /agents/{path} has answered for a path that is registered
Read == route_call.op = "get_agent" /\ route_call.done /\ route_call.result # 404

Normalized == route_call.op = "normalize_path" /\ route_call.done

\* C30: _normalize_path is idempotent and returns the canonical form, which
\* starts with '/' and has no trailing '/' unless it is the root; a path
\* written with or without a leading and a trailing '/' has the same form.
C30_NormalizePathCanonical ==
    Normalized =>
        LET path == route_call.result
        IN  /\ normalize_path(path) = path
            /\ path # <<>> /\ Head(path) = "/"
            /\ Len(path) > 1 => path[Len(path)] # "/"
            /\ ~StartsWith(route_call.raw_path, <<"/">>) =>
                  normalize_path(<<"/">> \o route_call.raw_path) = path
            /\ ~EndsWith(route_call.raw_path, <<"/">>) =>
                  normalize_path(route_call.raw_path \o <<"/">>) = path

(***************************************************************************)
(* Registrations, ratings and updates of agents by their users.            *)
(***************************************************************************)
Owner == UserContext("u1", FALSE, {}, {ALL})
Other == UserContext("u2", FALSE, {}, {ALL})
Admin == UserContext("admin", TRUE, {}, {ALL})

Updaters == {Owner, Other, Admin}

UpdateRaters == {"u1", "u2"}

\* the existing card of a path, as the update route reads it
ExistingAgent(path) ==
    CardFields(registered_by[path], registered_at[path], num_stars[path],
               rating_details[path])

SetCardFields(path, card) ==
    /\ registered_by' = [registered_by EXCEPT ![path] = card.registered_by]
    /\ registered_at' = [registered_at EXCEPT ![path] = card.registered_at]
    /\ num_stars' = [num_stars EXCEPT ![path] = card.num_stars]
    /\ rating_details' = [rating_details EXCEPT ![path] = card.rating_details]

\* agent_service.register_agent with the card the register route builds for
\* its user
RegisterAgentBy(path, user_context) ==
    /\ path \in RatedPaths
    /\ LET out == register_agent(Current, AgentCard(path, FaultDesc, <<>>), "ok", "ok")
       IN  /\ ApplyStore(out, Op("register", path, FALSE, out.result))
           /\ IF out.result = "ok"
              THEN /\ SetCardFields(path, registered_agent_card(user_context, now))
                   /\ now' = now + 1
              ELSE UNCHANGED <<registered_by, registered_at, num_stars, rating_details, now>>
    /\ UNCHANGED <<route_vars, scan_vars, index_vars, last_rating, last_update>>

\* PUT /agents/{path} up to the await of add_or_update_entity; the ValueError
\* of agent_service.update_agent is caught nowhere in the route
UpdateRoute(r, raw_path, user_context, desc, permitted, is_valid, save_fault) ==
    /\ requests[r].pc = "idle"
    /\ LET path == normalize_path(raw_path)
           status == update_agent_checks(Current, path, ExistingAgent(path), user_context,
                                         permitted, is_valid)
           updated_agent == updated_agent_card(ExistingAgent(path), user_context)
           out == update_agent(Current, path, desc, save_fault)
       IN  IF status # 0
           THEN /\ last_update' = UpdateCall(path, user_context, status)
                /\ last_op' = Op("update_route", path, FALSE, "rejected")
                /\ UNCHANGED <<store_vars, requests, registered_by, registered_at, num_stars,
                               rating_details>>
           ELSE /\ ApplyStore(out, Op("update_route", path, FALSE, out.result))
                /\ IF out.result = "ok"
                   THEN /\ SetCardFields(path, updated_agent)
                        /\ SetRequest(r, Request("update_indexing", path, <<>>,
                                                 is_agent_enabled(out.store, path), 0, "none"))
                        /\ last_update' = UpdateCall(path, user_context, 200)
                   ELSE /\ last_update' = UpdateCall(path, user_context, 500)
                        /\ UNCHANGED <<requests, registered_by, registered_at, num_stars,
                                       rating_details>>
    /\ UNCHANGED <<faiss_is_enabled, scan_config, scan_vars, index_vars, last_rating, now>>

\* from the return of add_or_update_entity to the response of the update
UpdateIndexDone(r) ==
    /\ requests[r].pc = "update_indexing"
    /\ LET req == requests[r]
       IN  /\ faiss_is_enabled' = [faiss_is_enabled EXCEPT ![req.path] =
                                       IF req.is_enabled THEN "enabled" ELSE "disabled"]
           /\ last_op' = Op("update_indexed", req.path, req.is_enabled, "ok")
           /\ SetRequest(r, IdleRequest)
    /\ UNCHANGED <<store_vars, scan_config, scan_vars, rating_vars, owner_vars, index_vars>>

UpdatePaths == {PathC}

NextUpdate ==
    \/ \E path \in UpdatePaths, user_context \in {Owner, Other} :
          RegisterAgentBy(path, user_context)
    \/ \E path \in UpdatePaths, username \in UpdateRaters,
          rating \in {MIN_RATING_VALUE, MAX_RATING_VALUE} :
          UpdateRating(path, username, rating, "ok")
    \/ \E user_context \in Updaters, permitted \in BOOLEAN, is_valid \in BOOLEAN :
          UpdateRoute(1, PathCSlash, user_context, FaultDesc, permitted, is_valid, "ok")
    \/ UpdateIndexDone(1)
    \/ \E path \in UpdatePaths, enabled \in BOOLEAN : ToggleAgent(path, enabled, "ok")

SpecUpdate == Init /\ [][NextUpdate]_vars

\* C31: the num_stars of every agent is the mean of the ratings in its
\* rating buffer, and 0 when the buffer is empty.
C31_NumStarsIsMean ==
    \A path \in Paths :
        IF rating_details[path] = <<>>
        THEN num_stars[path].num = 0
        ELSE num_stars[path].num * Len(rating_details[path]) =
                 SumRatings(rating_details[path]) * num_stars[path].den

\* the request of the update route handled last was sent for a registered
\* agent by a user who is neither admin nor the one who registered it
UpdateByStranger(call) ==
    /\ call.path \in DOMAIN registered_agents
    /\ ~call.user_context.is_admin
    /\ call.user_context.username # registered_by[call.path]

\* C34: an update requested by a user who is neither admin nor the
\* registering user is answered 403 and changes nothing; an update that
\* succeeds keeps the agent's path, registered_by, registered_at and the
\* enabled and disabled lists.
C34_UpdateKeepsOwner ==
    [][last_op'.op = "update_route" =>
          LET call == last_update'
          IN  /\ UpdateByStranger(call) =>
                    /\ call.status = 403
                    /\ UNCHANGED <<store_vars, rating_details, num_stars, registered_by,
                                   registered_at, faiss_is_enabled, requests>>
              /\ call.status = 200 =>
                    /\ call.path \in DOMAIN registered_agents'
                    /\ registered_agents'[call.path].path = call.path
                    /\ DOMAIN registered_agents' = DOMAIN registered_agents
                    /\ registered_by' = registered_by
                    /\ registered_at' = registered_at
                    /\ agent_state' = agent_state]_vars

\* the admin's update of an agent that a user registered and enabled has
\* succeeded, and the last request a stranger sent was refused
C34_Witness ==
    /\ last_op.op = "update_route"
    /\ last_update.status = 200
    /\ last_update.user_context = Admin
    /\ registered_by[last_update.path] = Owner.username
    /\ In(last_update.path, agent_state.enabled)

(***************************************************************************)
(* The load of the agents at startup.                                      *)
(***************************************************************************)
\* the paths of the agent documents that the agents directory holds
DocumentPaths == {agent_files[f].card.path : f \in {g \in DOMAIN agent_files : agent_files[g].valid}}

\* the state file lists p as enabled / as disabled
PersistedEnabled(p) == state_file.exists /\ state_file.valid /\ In(p, state_file.enabled)
PersistedDisabled(p) == state_file.exists /\ state_file.valid /\ In(p, state_file.disabled)

\* C32: after load_agents_and_state, every agent document on disk whose path
\* is not in the state file is in the disabled list (and not in the enabled
\* one), and every loaded agent that the state file lists is in the list or
\* lists the file has it in, and in no other.
C32_LoadDisablesUnlisted ==
    last_op.op = "load" =>
        \A p \in DocumentPaths :
            /\ Registered(p)
            /\ (~PersistedEnabled(p) /\ ~PersistedDisabled(p)) =>
                   InDisabled(p) /\ ~InEnabled(p)
            /\ (PersistedEnabled(p) \/ PersistedDisabled(p)) =>
                   /\ InEnabled(p) <=> PersistedEnabled(p)
                   /\ InDisabled(p) <=> PersistedDisabled(p)

\* a load has found a document that the state file does not list beside an
\* agent that the state file lists as enabled
C32_Witness ==
    /\ last_op.op = "load"
    /\ \E p \in DocumentPaths : ~PersistedEnabled(p) /\ ~PersistedDisabled(p) /\ InDisabled(p)
    /\ \E p \in DocumentPaths : PersistedEnabled(p) /\ InEnabled(p)

(***************************************************************************)
(* The index service with an embedding model and an index that can fail:   *)
(* encode raises, or add_with_ids raises after remove_ids has run.  One    *)
(* call runs at a time.                                                    *)
(***************************************************************************)
\* add_with_ids has raised
AddRaised(task) ==
    /\ index_tasks[task].pc = "encoding"
    /\ LET u == index_tasks[task]
       IN  ApplyIndex(add_with_ids_raised(CurrentIndex, u.id, u.existing),
                      IndexOp("upsert_failed", u.entity_type, u.path, u.info, u.is_enabled,
                              FALSE))
    /\ index_tasks' = [index_tasks EXCEPT ![task] = IdleTask]
    /\ UNCHANGED removed_paths

NextIndexFault ==
    \/ \E entity \in IndexedEntities, info \in EntityInfos, is_enabled \in BOOLEAN :
          Upsert(1, entity[1], entity[2], info, is_enabled)
    \/ \E encoded \in BOOLEAN : EncodeDone(1, encoded)
    \/ AddRaised(1)
    \/ \E path \in IndexPaths : RemoveEntity(path)

SpecIndexFault == Init /\ [][NextIndexFault]_vars

\* the index holds the vector of the record's text under the record's id
HasVector(path) ==
    \E v \in faiss_index :
        /\ v.id = metadata_store[path].id
        /\ v.text = metadata_store[path].text_for_embedding

\* C33: whatever upserts have failed, every metadata record has the vector
\* of its text_for_embedding in the index, and an upsert that has not failed
\* leaves its path searchable under the text it was called with.
C33_FailedUpsertHeals ==
    /\ \A path \in DOMAIN metadata_store : HasVector(path)
    /\ last_index_op.op = "upsert" =>
           /\ last_index_op.path \in DOMAIN metadata_store
           /\ metadata_store[last_index_op.path].text_for_embedding = last_index_op.info.text
           /\ HasVector(last_index_op.path)

(***************************************************************************)
(* The routes with the index behind them: what a registration and a toggle *)
(* hand to faiss_service.add_or_update_entity, and what a semantic search  *)
(* then returns.                                                           *)
(***************************************************************************)
\* agent_card.model_dump() as the routes hand it to the index: the text that
\* is embedded, the other fields, and the card's own is_enabled, which is
\* False by default and which no code of the store or of the routes sets
CardDump == EntityInfo("t1", "x1", FALSE)

SetIndex(ix) ==
    /\ metadata_store' = ix.metadata_store
    /\ next_id_counter' = ix.next_id_counter
    /\ faiss_index' = ix.faiss_index
    /\ faiss_files' = ix.faiss_files

\* add_or_update_entity(path, dump, "a2a_agent", is_enabled) called by a
\* route, up to its first await: to its end when nothing is embedded
IndexAgent(path, is_enabled) ==
    \E task \in TaskIds :
        /\ index_tasks[task].pc = "idle"
        /\ \A other \in TaskIds : other < task => index_tasks[other].pc # "idle"
        /\ LET begun == begin_upsert(CurrentIndex, path, CardDump)
           IN  /\ begun.index.next_id_counter <= MaxIds
               /\ IF begun.needs_new_embedding
                  THEN /\ SetIndex(begun.index)
                       /\ index_tasks' = [index_tasks EXCEPT ![task] =
                              UpsertTask("encoding", A2A_AGENT, path, CardDump, is_enabled,
                                         begun.id, begun.existing)]
                       /\ UNCHANGED last_index_op
                  ELSE /\ SetIndex(end_upsert(begun.index, A2A_AGENT, path, CardDump,
                                              is_enabled, begun.id, begun.existing, FALSE, TRUE))
                       /\ last_index_op' = IndexOp("upsert", A2A_AGENT, path, CardDump,
                                                   is_enabled, FALSE)
                       /\ UNCHANGED index_tasks

\* POST /agents/register with the registration scan switched off, from the
\* return of validate_agent_card to the await inside add_or_update_entity
RegisterIndexed(path) ==
    /\ ~get_agent_info(Current, path)
    /\ LET out == register_agent(Current, AgentCard(path, FaultDesc, <<>>), "ok", "ok")
       IN  /\ ApplyStore(out, Op("register_route", path, FALSE, out.result))
           /\ IndexAgent(path, is_agent_enabled(out.store, path))
    /\ UNCHANGED <<route_vars, scan_vars, rating_vars, owner_vars, removed_paths,
                   search_call, route_call>>

\* POST /agents/{path}/toggle, to the await inside add_or_update_entity
ToggleIndexed(raw_path, enabled) ==
    /\ LET path == normalize_path(raw_path)
           out == toggle_agent(Current, path, enabled, "ok")
       IN  /\ get_agent_info(Current, path)
           /\ ApplyStore(out, Op("toggle_route", path, enabled, out.result))
           /\ IndexAgent(path, enabled)
    /\ UNCHANGED <<route_vars, scan_vars, rating_vars, owner_vars, removed_paths,
                   search_call, route_call>>

\* search_entities(entity_types=["a2a_agent"], enabled_only=True) for a query
\* that every indexed agent matches: the paths of the results
search_enabled_agents(ix) ==
    {path \in SearchablePaths(ix) :
        /\ ix.metadata_store[path].entity_type = A2A_AGENT
        /\ ix.metadata_store[path].snapshot.is_enabled}

\* POST /agents/discover/semantic: the paths of the agents it returns to a
\* user who may read every agent
discover_agents_semantic(ix, s) ==
    {path \in search_enabled_agents(ix) : path \in DOMAIN s.registered_agents}

NextToggleIndex ==
    \/ \E path \in IndexPaths : RegisterIndexed(path)
    \/ \E raw_path \in RawPaths, enabled \in BOOLEAN : ToggleIndexed(raw_path, enabled)
    \/ \E task \in TaskIds : EncodeDone(task, TRUE)

SpecToggleIndex == Init /\ [][NextToggleIndex]_vars

\* the toggle route has answered for an indexed agent, and no index call for
\* the agent is still running
ToggleCompleted(path) ==
    /\ last_op.op = "toggle_route" /\ last_op.path = path /\ last_op.result = "true"
    /\ \A task \in TaskIds : index_tasks[task].path # path
    /\ path \in SearchablePaths(CurrentIndex)

\* C35: once a toggle of an agent has completed, the is_enabled that the
\* index holds for the agent is the store's, and a semantic discovery
\* returns the agent exactly when the store has it enabled.
C35_ToggleReachesIndex ==
    \A path \in Paths :
        ToggleCompleted(path) =>
            /\ metadata_store[path].snapshot.is_enabled = is_agent_enabled(Current, path)
            /\ path \in discover_agents_semantic(CurrentIndex, Current)
                   <=> is_agent_enabled(Current, path)

(***************************************************************************)
(* Overlapping upserts: the index service called by several requests, with *)
(* an embedding model that does not fail and no removals.                  *)
(***************************************************************************)
NextIndexUpserts ==
    \/ \E task \in TaskIds, entity \in IndexedEntities, info \in EntityInfos,
          is_enabled \in BOOLEAN :
          Upsert(task, entity[1], entity[2], info, is_enabled)
    \/ \E task \in TaskIds : EncodeDone(task, TRUE)

SpecIndexUpserts == Init /\ [][NextIndexUpserts]_vars

\* no upsert is suspended in encode
NoUpsertRunning == \A task \in TaskIds : index_tasks[task].pc = "idle"

\* C36: whatever upserts of a path have overlapped, every vector of the
\* index is stored under the id of a metadata record, and once the upserts
\* have returned every path with a record has exactly one vector, under its
\* record's id, and next_id_counter has advanced once for each such path.
C36_OneVectorPerPath ==
    /\ \A v \in faiss_index : \E path \in DOMAIN metadata_store : metadata_store[path].id = v.id
    /\ NoUpsertRunning =>
           /\ \A path \in DOMAIN metadata_store :
                 Cardinality({v \in faiss_index : v.id = metadata_store[path].id}) = 1
           /\ Cardinality(faiss_index) = Cardinality(DOMAIN metadata_store)
           /\ next_id_counter = Cardinality(DOMAIN metadata_store)

(***************************************************************************)
(* Crashes of the index service.  save_data writes the index file and then *)
(* the metadata file; a process that dies in between is started again and  *)
(* loads what is on disk.  One call runs at a time.                        *)
(***************************************************************************)
\* the upsert of the task has embedded and written its record, and the
\* process dies inside the save_data that follows; the lifespan of the next
\* process calls _load_faiss_data
CrashInSaveData(task) ==
    /\ index_tasks[task].pc = "encoding"
    /\ LET u == index_tasks[task]
           written == end_upsert(CurrentIndex, u.entity_type, u.path, u.info, u.is_enabled,
                                 u.id, u.existing, TRUE, TRUE)
           unsaved == Index(written.metadata_store, written.next_id_counter,
                            written.faiss_index, faiss_files)
       IN  ApplyIndex(load_faiss_data(save_data_crashed(unsaved)),
                      IndexOp("crash", u.entity_type, u.path, u.info, u.is_enabled, TRUE))
    /\ index_tasks' = [t \in TaskIds |-> IdleTask]
    /\ UNCHANGED removed_paths

NextIndexCrash ==
    \/ \E entity \in IndexedEntities, info \in EntityInfos, is_enabled \in BOOLEAN :
          Upsert(1, entity[1], entity[2], info, is_enabled)
    \/ EncodeDone(1, TRUE)
    \/ CrashInSaveData(1)
    \/ \E path \in IndexPaths : RemoveEntity(path)

SpecIndexCrash == Init /\ [][NextIndexCrash]_vars

\* C37: next_id_counter, as loaded or as counted since, is greater than the
\* id of every vector of the index, and the vector under the id of a
\* metadata record is the vector of the record's text, so that a hit is
\* attributed to the path whose text produced it.
C37_NextIdAboveVectors ==
    /\ \A v \in faiss_index : v.id < next_id_counter
    /\ \A path \in DOMAIN metadata_store :
          \A v \in faiss_index :
              v.id = metadata_store[path].id =>
                  v.text = metadata_store[path].text_for_embedding

(***************************************************************************)
(* The read endpoints of the agent routes, each called on two stores that  *)
(* hold the same agents with the same access fields and differ only in the *)
(* data of the agent at PathC.  The agent at PathAB is public.             *)
(***************************************************************************)
AgentData(skills, stars, details, is_enabled, ping, scan) ==
    [skills |-> skills, num_stars |-> stars, rating_details |-> details,
     is_enabled |-> is_enabled, ping |-> ping, scan |-> scan]

\* a registered agent: the fields that the access filter reads, and the rest
ReadAgent(access, data) == [access |-> access, data |-> data]

\* what the routes read: the cards in the order of get_all_agents, and the
\* latest scan files
ReadStore(agents, order, files) ==
    [agents |-> agents, order |-> order, scan_files |-> files]

access_cards(rs) == [path \in DOMAIN rs.agents |-> rs.agents[path].access]

AgentInfo(path, data) ==
    [path |-> path, skills |-> data.skills, num_stars |-> data.num_stars,
     is_enabled |-> data.is_enabled]

\* GET /agents without query and visibility
list_agents(rs, enabled_only, user_context) ==
    LET all_agents == [i \in 1..Len(rs.order) |-> rs.agents[rs.order[i]].access]
        accessible_agents == filter_agents_by_access(all_agents, user_context)
        shown == SelectSeq(accessible_agents,
                           LAMBDA agent : ~enabled_only \/ rs.agents[agent.path].data.is_enabled)
    IN  [i \in 1..Len(shown) |-> AgentInfo(shown[i].path, rs.agents[shown[i].path].data)]

\* GET /agents/{path}: the status, or the card
get_agent_card(rs, raw_path, user_context) ==
    LET status == get_agent(access_cards(rs), raw_path, user_context)
    IN  IF status = 200 THEN rs.agents[normalize_path(raw_path)] ELSE status

\* GET /agents/{path}/rating
get_agent_rating(rs, raw_path, user_context) ==
    LET path == normalize_path(raw_path)
    IN  IF path \notin DOMAIN rs.agents THEN 404
        ELSE IF filter_agents_by_access(<<rs.agents[path].access>>, user_context) = <<>> THEN 403
        ELSE [num_stars |-> rs.agents[path].data.num_stars,
              rating_details |-> rs.agents[path].data.rating_details]

\* POST /agents/{path}/health; ping is what the agent's endpoint answers
check_agent_health(rs, raw_path, user_context) ==
    LET path == normalize_path(raw_path)
    IN  IF path \notin DOMAIN rs.agents THEN 404
        ELSE IF filter_agents_by_access(<<rs.agents[path].access>>, user_context) = <<>> THEN 403
        ELSE IF ~rs.agents[path].data.is_enabled THEN 400
        ELSE [agent_path |-> path,
              status |-> IF rs.agents[path].data.ping = 200 THEN "healthy" ELSE "unhealthy",
              status_code |-> rs.agents[path].data.ping]

\* POST /agents/discover without tags, for agents of one trust level
discover_agents_by_skills(rs, skills, max_results, user_context) ==
    LET all_agents == [i \in 1..Len(rs.order) |-> rs.agents[rs.order[i]].access]
        accessible_agents == filter_agents_by_access(all_agents, user_context)
        skill_matches(agent) == skills \cap rs.agents[agent.path].data.skills
        matching == SelectSeq(accessible_agents,
                              LAMBDA agent : /\ rs.agents[agent.path].data.is_enabled
                                             /\ skill_matches(agent) # {})
        matched_agents == [i \in 1..Len(matching) |->
                              [path |-> matching[i].path,
                               num_stars |-> rs.agents[matching[i].path].data.num_stars,
                               matched_skills |-> skill_matches(matching[i])]]
        keys == [i \in 1..Len(matching) |-> Cardinality(skill_matches(matching[i]))]
    IN  IF skills = {} THEN 400
        ELSE Take(SortDescending(matched_agents, keys), max_results)

\* GET /agents/{path}/security-scan
get_agent_security_scan(rs, raw_path, user_context) ==
    LET path == IF ~StartsWith(raw_path, <<"/">>) THEN <<"/">> \o raw_path ELSE raw_path
        scan_result == get_agent_scan_result(rs.scan_files, path)
    IN  IF ~get_agent_info([registered_agents |-> rs.agents], path) THEN 404
        ELSE IF scan_result = NoScanResult THEN 404
        ELSE scan_result

ReadCall(op, raw_path, agent, user_context, data, other_data, enabled_only) ==
    [op |-> op, raw_path |-> raw_path, agent |-> agent, user_context |-> user_context,
     data |-> data, other_data |-> other_data, enabled_only |-> enabled_only,
     done |-> FALSE, result |-> <<>>]

\* the latest scan file of an agent
SafeScan == RawOutput(<<>>)
UnsafeScan == RawOutput(<<"HIGH">>)

\* two cards of the agent at PathC that differ in every field
AgentDatas ==
    {AgentData({"alpha"}, Score(0, 1), <<>>, TRUE, 200, SafeScan),
     AgentData({"alpha", "beta"}, Score(5, 1), <<RatingEntry("u1", MAX_RATING_VALUE)>>,
               FALSE, 503, UnsafeScan)}

OtherAgent ==
    ReadAgent(AccessCard(PathAB, PUBLIC, "bob", {}),
              AgentData({"alpha"}, Score(1, 1), <<RatingEntry("u2", MIN_RATING_VALUE)>>,
                        TRUE, 200, SafeScan))

\* the store of a read call in which the agent at PathC has the data
read_store(call, data) ==
    ReadStore(DictSet(DictSet(EmptyDict, PathAB, OtherAgent), PathC,
                      ReadAgent(call.agent, data)),
              <<PathC, PathAB>>,
              save_agent_scan_output(ScanArchive(EmptyDict, {}), PathC, data.scan).scan_files)

ReadOps == {"get_agent_card", "get_agent_rating", "check_agent_health",
            "discover_agents_by_skills", "get_agent_security_scan"}

InitReads ==
    \E agent \in AccessCards, user_context \in UserContexts, data, other_data \in AgentDatas :
        \/ \E op \in ReadOps, raw_path \in {SlashC, PathCSlash} :
              InitState(DefaultScanConfig, NoSearchCall,
                        ReadCall(op, raw_path, agent, user_context, data, other_data, FALSE))
        \/ \E enabled_only \in BOOLEAN :
              InitState(DefaultScanConfig, NoSearchCall,
                        ReadCall("list_agents", <<>>, agent, user_context, data, other_data,
                                 enabled_only))

\* a call that has not answered yet
Reading(op) == route_call.op = op /\ ~route_call.done

\* the store of the call, and the one that differs in the data of the agent
Store1 == read_store(route_call, route_call.data)
Store2 == read_store(route_call, route_call.other_data)

ListAgents ==
    /\ Reading("list_agents")
    /\ Answer(<<list_agents(Store1, route_call.enabled_only, route_call.user_context),
                list_agents(Store2, route_call.enabled_only, route_call.user_context)>>)

GetAgentCard ==
    /\ Reading("get_agent_card")
    /\ Answer(<<get_agent_card(Store1, route_call.raw_path, route_call.user_context),
                get_agent_card(Store2, route_call.raw_path, route_call.user_context)>>)

GetAgentRating ==
    /\ Reading("get_agent_rating")
    /\ Answer(<<get_agent_rating(Store1, route_call.raw_path, route_call.user_context),
                get_agent_rating(Store2, route_call.raw_path, route_call.user_context)>>)

CheckAgentHealth ==
    /\ Reading("check_agent_health")
    /\ Answer(<<check_agent_health(Store1, route_call.raw_path, route_call.user_context),
                check_agent_health(Store2, route_call.raw_path, route_call.user_context)>>)

DiscoverAgentsBySkills ==
    /\ Reading("discover_agents_by_skills")
    /\ Answer(<<discover_agents_by_skills(Store1, {"alpha", "beta"}, 1, route_call.user_context),
                discover_agents_by_skills(Store2, {"alpha", "beta"}, 1, route_call.user_context)>>)

GetAgentSecurityScan ==
    /\ Reading("get_agent_security_scan")
    /\ Answer(<<get_agent_security_scan(Store1, route_call.raw_path, route_call.user_context),
                get_agent_security_scan(Store2, route_call.raw_path, route_call.user_context)>>)

NextReads ==
    \/ ListAgents
    \/ GetAgentCard
    \/ GetAgentRating
    \/ CheckAgentHealth
    \/ DiscoverAgentsBySkills
    \/ GetAgentSecurityScan

SpecReads == InitReads /\ [][NextReads]_vars

\* a read has answered a user who is no admin and whom the access filter
\* refuses the agent at PathC
RejectedRead ==
    /\ route_call.op \in ReadOps \cup {"list_agents"}
    /\ route_call.done
    /\ ~route_call.user_context.is_admin
    /\ ~agent_accessible(route_call.agent, route_call.user_context)

NextFiles ==
    \/ \E path \in Paths, desc \in Descs : RegisterAgent(path, desc, "ok", "ok")
    \/ \E path \in Paths, desc \in Descs : UpdateAgent(path, desc, "ok")
    \/ \E path \in RatedPaths, rating \in {MIN_RATING_VALUE, MAX_RATING_VALUE} :
          UpdateRating(path, "u1", rating, "ok")
    \/ \E path \in Paths : DeleteAgent(path, TRUE, "ok")

SpecFiles == Init /\ [][NextFiles]_vars

\* the step is a register, update, rate or delete of an agent other than q
StepOfOther(q) ==
    /\ last_op'.op \in {"register", "update", "update_rating", "delete"}
    /\ last_op'.path # q

\* C39: two registered agents with different paths never share an entity
\* file, and a register, update, rate or delete of one agent leaves the
\* persisted document of every other registered agent as it was (for
\* example for the paths '/a/b' and '/a_b').
C39_OneFilePerAgent ==
    [][/\ \A p, q \in DOMAIN registered_agents' :
             p # q => path_to_filename(p) # path_to_filename(q)
       /\ \A q \in DOMAIN registered_agents :
             (EntityFileExists(q) /\ StepOfOther(q)) =>
                 /\ path_to_filename(q) \in DOMAIN agent_files'
                 /\ agent_files'[path_to_filename(q)] = agent_files[path_to_filename(q)]]_vars

\* the step produces the 201 response of register request r
RegisterAnswered(r) ==
    /\ requests[r].pc # "done"
    /\ requests'[r].pc = "done"
    /\ requests'[r].status = 201

\* C40: the is_enabled in the body of a successful register response is
\* is_agent_enabled(path) of the store at the moment the response is
\* produced, for every scan configuration and every scan outcome.
C40_ResponseShowsStoreState ==
    [][\A r \in RequestIds :
          RegisterAnswered(r) =>
              requests'[r].is_enabled =
                  is_agent_enabled(Store(registered_agents', agent_state', agent_files',
                                         state_file'),
                                   requests'[r].path)]_vars

====
